---- MODULE Spec2Model ----
(***************************************************************************)
(* Model of the S3 bucket migration engine of src/main.py: the backoff     *)
(* retrier (retry_operation), the per-object dispatcher (_copy_object),    *)
(* the multipart path (_multipart_copy), the per-bucket worker pool        *)
(* (migrate_bucket) and the run over all buckets (migrate_all_buckets).    *)
(*                                                                         *)
(* One step of a thread is one blocking remote call together with the      *)
(* local code that follows it up to the next remote call.  The two object  *)
(* stores are the environment: every remote call draws its outcome from    *)
(* the outcomes the store can produce in its current state.  Log output    *)
(* of a run is not modelled (_format_size returns for the sizes and byte    *)
(* totals of the modelled runs, so its log lines do not raise).            *)
(*                                                                         *)
(* Specifications:                                                         *)
(*   Spec       one run of migrate_all_buckets over three buckets          *)
(*   SpecParts  the multipart transfer of one object, every size and chunk *)
(*   SpecRetry  one call of retry_operation, invocation by invocation      *)
(*   SpecMain   main(): arguments, the run, KeyboardInterrupt, exit status *)
(*   SpecTwice  a second run of the process after a run without failures   *)
(*   SpecLarge  a bucket of large objects while another client writes      *)
(*   SpecFormat one call of _format_size, for sizes up to 1024^MaxDigits   *)
(*   SpecLive   a call of retry_operation and then a run, every step fair  *)
(***************************************************************************)
EXTENDS Integers, Sequences, FiniteSets, TLC

(***************************************************************************)
(* Bounds of the model.                                                    *)
(***************************************************************************)
\* size of the large object of the source listing, in bytes
BigObjSize == 5
\* longest size given to _format_size, in digits of base 1024
MaxDigits == 7
\* largest worker count the configuration is drawn from
MaxWorkers == 2
\* largest object size and chunk size of the chunk-boundary specification
MaxPartSize == 9
MaxChunk == 4
\* largest max_retries and retry_delay a retry_operation call is followed
\* with
MaxRetriesN == 3
MaxDelay == 2
\* number of runs of the process that are followed
MaxRuns == 2

(***************************************************************************)
(* Program constants.                                                      *)
(***************************************************************************)
\* retry_operation(..., max_retries: int = 3, retry_delay: int = 2)
max_retries == 3
retry_delay == 2

\* RETRIABLE_ERROR_CODES
RETRIABLE_ERROR_CODES ==
    {"RequestTimeout", "RequestTimeTooSkewed", "InternalError",
     "ServiceUnavailable", "SlowDown", "OperationAborted",
     "ConnectionError", "ConnectTimeoutError", "ReadTimeoutError"}

(***************************************************************************)
(* Outcomes of one invocation of a remote operation: it returns (OK) or    *)
(* raises.  An exception is its class and, for a botocore ClientError, the *)
(* error code of the response.                                             *)
(***************************************************************************)
OK == [cls |-> "ok", code |-> ""]
NoExc == [cls |-> "none", code |-> ""]
ClientError(code) == [cls |-> "ClientError", code |-> code]
ConnectionErr == [cls |-> "ConnectionError", code |-> ""]
TimeoutErr == [cls |-> "TimeoutError", code |-> ""]
OtherExc == [cls |-> "Exception", code |-> ""]

\* the error codes the model lets the stores answer with: one retriable
\* code, the not-found codes, 403, one permanent code, and the code of a
\* create_bucket on a bucket that exists
ErrorCodes ==
    {"SlowDown", "404", "NoSuchKey", "403", "AccessDenied",
     "BucketAlreadyOwnedByYou"}

Errors == {ClientError(c) : c \in ErrorCodes} \cup {ConnectionErr, OtherExc}

(***************************************************************************)
(* retry_operation: `outs` is what the wrapped function does on its        *)
(* successive invocations.  The result tells whether the call returned or  *)
(* raised, the exception raised, the number of invocations made and the    *)
(* sleeps taken, in order.                                                 *)
(***************************************************************************)
Pow2(n) == IF n <= 0 THEN 1 ELSE 2 ^ n

RECURSIVE retry_loop(_, _, _, _, _)
retry_loop(outs, retry_count, last_exception, sleeps, calls) ==
    IF retry_count < max_retries
    THEN LET o == outs[calls + 1]
             wait_time == retry_delay * Pow2(retry_count)
         IN  IF o = OK
             THEN [raised |-> FALSE, exc |-> NoExc, calls |-> calls + 1,
                   sleeps |-> sleeps]
             ELSE IF o.cls = "ClientError"
             THEN IF o.code \in RETRIABLE_ERROR_CODES
                  THEN retry_loop(outs, retry_count + 1, o,
                                  Append(sleeps, wait_time), calls + 1)
                  ELSE [raised |-> TRUE, exc |-> o, calls |-> calls + 1,
                        sleeps |-> sleeps]
             ELSE IF o.cls \in {"ConnectionError", "TimeoutError"}
             THEN retry_loop(outs, retry_count + 1, o,
                             Append(sleeps, wait_time), calls + 1)
             ELSE [raised |-> TRUE, exc |-> o, calls |-> calls + 1,
                   sleeps |-> sleeps]
    ELSE IF last_exception # NoExc
         THEN [raised |-> TRUE, exc |-> last_exception, calls |-> calls,
               sleeps |-> sleeps]
         ELSE [raised |-> FALSE, exc |-> NoExc, calls |-> calls,
               sleeps |-> sleeps]

retry_operation(outs) == retry_loop(outs, 0, NoExc, <<>>, 0)

\* what the successive invocations of one remote operation can do
AttemptSeqs == [1..max_retries -> {OK} \cup Errors]

\* the ways a call made through retry_operation can end: the exception it
\* raises, or OK when it returns
RetryOutcomes ==
    {LET r == retry_operation(s) IN IF r.raised THEN r.exc ELSE OK :
        s \in AttemptSeqs}

\* the same with the invocations made and the sleeps taken
RetryResults == {retry_operation(s) : s \in AttemptSeqs}

Outcome(rr) == IF rr.raised THEN rr.exc ELSE OK

(***************************************************************************)
(* The chunk arithmetic of _multipart_copy.                                *)
(***************************************************************************)
part_count(size, chunk_size) == (size + chunk_size - 1) \div chunk_size

Min(a, b) == IF a <= b THEN a ELSE b

start_byte(i, chunk_size) == i * chunk_size

\* mutant of end_byte: the last range is not cut at the end of the object
end_byte_unclamped(i, chunk_size, size) ==
    start_byte(i, chunk_size) + chunk_size - 1

end_byte(i, chunk_size, size) ==
    Min(start_byte(i, chunk_size) + chunk_size - 1, size - 1)

(***************************************************************************)
(* The run that is modelled: the bucket list of the migrator and the two   *)
(* stores.  A key is the sequence of its characters.                       *)
(***************************************************************************)
bucket_names == <<"b1", "b2", "b3">>

KeyA == <<"a">>
KeyBig == <<"b", "i", "g">>
KeyDir == <<"d", "/">>

Keys == {KeyA, KeyBig, KeyDir}

\* str.endswith('/')
endswith_slash(key) == Len(key) > 0 /\ key[Len(key)] = "/"

Obj(key, size) == [Key |-> key, Size |-> size]

\* a key the target does not hold
Absent == -1

\* chunk_size and max_direct_size the migrator of the modelled run is
\* configured with, in bytes
RunChunkSize == 2
RunMaxDirectSize == 2

\* the listing pages of the source buckets: "b1" holds an object of
\* max_direct_size bytes and a large one, on two pages with a page without
\* Contents between them; "b2" holds a directory marker; "b3" is empty
SourcePages ==
    [b \in {"b1", "b2", "b3"} |->
        IF b = "b1"
        THEN << <<Obj(KeyA, RunMaxDirectSize)>>, <<>>,
                <<Obj(KeyBig, BigObjSize)>> >>
        ELSE IF b = "b2" THEN << <<Obj(KeyDir, 0)>> >>
        ELSE << <<>> >>]

VARIABLES
    cfg,                \* the migrator's skip_existing, direct_read,
                        \* max_workers, chunk_size, max_direct_size
    source,             \* the source store: bucket -> listing pages
    target,             \* the target store: bucket -> key -> size or Absent
    uploads,            \* the target's multipart sessions, by upload id
    pc,                 \* where migrate_all_buckets is
    bidx,               \* index of the bucket being migrated
    page,               \* pages read by the running _list_all_objects
    objects_list,       \* migrate_bucket: the objects enumerated
    task,               \* migrate_bucket: the futures submitted to the pool
    collected,          \* migrate_bucket: the futures as_completed has yielded
    copied_objects,     \* migrate_bucket: local counter
    failed_objects,     \* migrate_bucket: local counter
    bucket_bytes,       \* migrate_bucket: local total_bytes
    failed_keys,        \* migrate_bucket: local list
    files,              \* the failed-key files written
    total_objects,      \* migrate_all_buckets: local counter
    total_failed,       \* migrate_all_buckets: local counter
    total_bytes,        \* migrate_all_buckets: local counter
    failures_by_bucket, \* migrate_all_buckets: local dict
    last_error,         \* migrate_all_buckets: the exception its except
                        \* clause has just logged, with the operation that
                        \* raised it and the invocations made of it; dropped
                        \* when the next bucket logs its first line
    rt,                 \* one call of retry_operation: its arguments, its
                        \* locals and what it has done so far
    fmt,                \* one call of _format_size: its argument and what
                        \* it returned or raised
    conf,               \* main: the command line and the configuration file
    exit_code,          \* the status the process exited with
    runs                \* what the earlier runs of the process returned

vars ==
    <<cfg, source, target, uploads, pc, bidx, page, objects_list, task,
      collected, copied_objects, failed_objects, bucket_bytes, failed_keys,
      files, total_objects, total_failed, total_bytes, failures_by_bucket,
      last_error, rt, fmt, conf, exit_code, runs>>

\* what a step of a migration leaves alone: the retry_operation call and
\* the _format_size call that are followed on their own, and the process
\* around the migration
outer == <<rt, fmt, conf, exit_code, runs>>

bucket_name == bucket_names[bidx]

(***************************************************************************)
(* The futures of one bucket migration.  A task is queued, then runs       *)
(* _copy_object from remote call to remote call, then is done with the     *)
(* (copied, size) it returned.  `calls` is the history of the remote calls *)
(* the task has issued.                                                    *)
(***************************************************************************)
NoResult == [copied |-> FALSE, size |-> -1]
Result(copied, size) == [copied |-> copied, size |-> size]

NewTask ==
    [pc |-> "queued", res |-> NoResult, upload_id |-> 0, parts |-> <<>>,
     i |-> 0, calls |-> <<>>]

\* one remote call: the operation, whether it returned (for get_object:
\* and its body was read), and what it was about: byte range, part number,
\* upload id, part list; for upload_part the ETag returned, for head_object
\* the size the target held when the call was made
NoETag == <<>>

Call(op, ok, lo, hi, part, uid, plist, etag, tsize) ==
    [op |-> op, ok |-> ok, lo |-> lo, hi |-> hi, part |-> part, uid |-> uid,
     parts |-> plist, etag |-> etag, tsize |-> tsize]

SimpleCall(op, ok) == Call(op, ok, -1, -1, 0, 0, <<>>, NoETag, Absent)

\* the ETag the target returns for an uploaded part: the digest of its body,
\* here the byte range of the object the body holds
ETagOf(key, lo, hi) == <<"md5", key, lo, hi>>

RECURSIVE Flatten(_)
Flatten(pages) ==
    IF pages = <<>> THEN <<>> ELSE Head(pages) \o Flatten(Tail(pages))

Running == {i \in DOMAIN task : task[i].pc \notin {"queued", "done"}}

\* a call of _copy_object returns
Return(t, copied, size) == [t EXCEPT !.pc = "done", !.res = Result(copied, size)]

Logged(t, c) == [t EXCEPT !.calls = Append(@, c)]

\* what head_object, issued through retry_operation, can end with: its
\* response when the target holds the key, a not-found error when it does
\* not, any other error in both cases
HeadOutcomes(b, key) ==
    {r \in RetryOutcomes :
        /\ r = OK => target[b][key] # Absent
        /\ (r.cls = "ClientError" /\ r.code \in {"404", "NoSuchKey"})
              => target[b][key] = Absent
        /\ r.code # "BucketAlreadyOwnedByYou"}

\* what an object operation other than head_object can end with
ObjectOutcomes == {r \in RetryOutcomes : r.code # "BucketAlreadyOwnedByYou"}

(***************************************************************************)
(* Init: the migrator as constructed by main(), and the two stores.        *)
(***************************************************************************)
\* the errors retry_operation takes as transient
Transient(exc) ==
    \/ exc.cls = "ClientError" /\ exc.code \in RETRIABLE_ERROR_CODES
    \/ exc.cls \in {"ConnectionError", "TimeoutError"}

\* the answer of create_bucket for a bucket that exists
AlreadyExists(exc) ==
    exc.cls = "ClientError" /\ exc.code = "BucketAlreadyOwnedByYou"

\* what is kept of an exception that ended a bucket: the remote operation
\* that raised it, its kind and, for a transient error, the number of
\* invocations of the operation that had been made when it was raised
Raised(op, exc, calls) ==
    [op |-> op,
     kind |-> IF exc = NoExc THEN "none"
              ELSE IF Transient(exc) THEN "transient"
              ELSE IF AlreadyExists(exc) THEN "exists"
              ELSE "permanent",
     calls |-> IF Transient(exc) THEN calls ELSE 0]

NoError == Raised("", NoExc, 0)

\* no call of retry_operation is followed on its own
NoCall ==
    [pc |-> "idle", func |-> <<>>, max_retries |-> 0, retry_delay |-> 0,
     retry_count |-> 0, last_exception |-> NoExc, result |-> NoExc,
     trace |-> <<>>]

\* no call of _format_size is followed on its own
NoFormat == [pc |-> "idle", size_bytes |-> <<0>>, raised |-> FALSE, text |-> ""]

\* main() has read its arguments and built the migrator
Resolved == [state |-> "resolved"]

\* the process has not exited
NoExit == -1

\* the first run of a process whose main() has built the migrator
FirstRun ==
    /\ rt = NoCall
    /\ fmt = NoFormat
    /\ conf = Resolved
    /\ exit_code = NoExit
    /\ runs = <<>>

\* no session on the target, nothing migrated
Fresh ==
    /\ uploads = <<>>
    /\ bidx = 1
    /\ page = 0
    /\ objects_list = <<>>
    /\ task = <<>>
    /\ collected = {}
    /\ copied_objects = 0
    /\ failed_objects = 0
    /\ bucket_bytes = 0
    /\ failed_keys = <<>>
    /\ files = <<>>
    /\ total_objects = 0
    /\ total_failed = 0
    /\ total_bytes = 0
    /\ failures_by_bucket = [b \in {} |-> 0]
    /\ last_error = NoError

\* migrate_all_buckets at its first bucket
Started == Fresh /\ pc = "ensure_head"

Init ==
    /\ cfg \in [skip_existing : BOOLEAN, direct_read : BOOLEAN,
                max_workers : 1..MaxWorkers, chunk_size : {RunChunkSize},
                max_direct_size : {RunMaxDirectSize}]
    /\ source = SourcePages
    \* each object of "b1" is absent from the target, or held with the size
    \* of the source object, or held with another size; the directory marker
    \* is absent or held; under every key its source bucket does not list
    \* the target bucket holds an object of its own
    /\ \E sa \in {Absent, RunMaxDirectSize, RunMaxDirectSize + 1},
          sb \in {Absent, BigObjSize, BigObjSize + 1}, sd \in {Absent, 0} :
          target = [b \in {"b1", "b2", "b3"} |->
                      [k \in Keys |->
                          IF b = "b1" /\ k = KeyA THEN sa
                          ELSE IF b = "b1" /\ k = KeyBig THEN sb
                          ELSE IF b = "b2" /\ k = KeyDir THEN sd
                          ELSE RunMaxDirectSize + 1]]
    /\ Started
    /\ FirstRun

(***************************************************************************)
(* migrate_all_buckets.                                                    *)
(***************************************************************************)
Failure(count, whole) == [count |-> count, whole |-> whole]

\* the for loop goes on to the next bucket, or the method returns; the
\* locals of the migrate_bucket call that ended are dropped
NextBucket ==
    /\ IF bidx < Len(bucket_names)
       THEN bidx' = bidx + 1 /\ pc' = "ensure_head"
       ELSE bidx' = bidx /\ pc' = "done"
    /\ page' = 0
    /\ objects_list' = <<>>
    /\ task' = <<>>
    /\ collected' = {}
    /\ copied_objects' = 0
    /\ failed_objects' = 0
    /\ bucket_bytes' = 0
    /\ failed_keys' = <<>>

\* mutant of BucketFailed: the exception of a bucket ends the run
BucketFailed_EndsRun(op, exc, calls) ==
    /\ last_error' = Raised(op, exc, calls)
    /\ total_failed' = total_failed + 1
    /\ failures_by_bucket' =
          [b \in DOMAIN failures_by_bucket \cup {bucket_name} |->
              IF b = bucket_name THEN Failure(0, TRUE)
              ELSE failures_by_bucket[b]]
    /\ bidx' = bidx
    /\ pc' = "done"
    /\ page' = 0
    /\ objects_list' = <<>>
    /\ task' = <<>>
    /\ collected' = {}
    /\ copied_objects' = 0
    /\ failed_objects' = 0
    /\ bucket_bytes' = 0
    /\ failed_keys' = <<>>

\* except Exception of migrate_all_buckets
BucketFailed(op, exc, calls) ==
    /\ last_error' = Raised(op, exc, calls)
    /\ total_failed' = total_failed + 1
    /\ failures_by_bucket' =
          [b \in DOMAIN failures_by_bucket \cup {bucket_name} |->
              IF b = bucket_name THEN Failure(0, TRUE)
              ELSE failures_by_bucket[b]]
    /\ NextBucket

\* _ensure_bucket_exists: head_bucket
EnsureHead ==
    /\ pc = "ensure_head"
    /\ \E rr \in RetryResults :
          LET r == Outcome(rr) IN
          IF r = OK
          THEN /\ pc' = "list"
               /\ UNCHANGED <<outer, cfg, source, target, uploads, bidx, page,
                              objects_list, task, collected, copied_objects,
                              failed_objects, bucket_bytes, failed_keys, files,
                              total_objects, total_failed, total_bytes,
                              failures_by_bucket>>
               /\ last_error' = NoError
          ELSE IF r.cls = "ClientError" /\ r.code = "404"
          THEN /\ pc' = "ensure_create"
               /\ UNCHANGED <<outer, cfg, source, target, uploads, bidx, page,
                              objects_list, task, collected, copied_objects,
                              failed_objects, bucket_bytes, failed_keys, files,
                              total_objects, total_failed, total_bytes,
                              failures_by_bucket>>
               /\ last_error' = NoError
          ELSE /\ BucketFailed("head_bucket", r, rr.calls)
               /\ UNCHANGED <<outer, cfg, source, target, uploads, files,
                              total_objects, total_bytes>>

\* _ensure_bucket_exists: create_bucket
EnsureCreate ==
    /\ pc = "ensure_create"
    /\ \E rr \in RetryResults :
          LET r == Outcome(rr) IN
          IF r = OK
          THEN /\ pc' = "list"
               /\ UNCHANGED <<outer, cfg, source, target, uploads, bidx, page,
                              objects_list, task, collected, copied_objects,
                              failed_objects, bucket_bytes, failed_keys, files,
                              total_objects, total_failed, total_bytes,
                              failures_by_bucket, last_error>>
          ELSE /\ BucketFailed("create_bucket", r, rr.calls)
               /\ UNCHANGED <<outer, cfg, source, target, uploads, files,
                              total_objects, total_bytes>>

\* what one page request of the paginator can end with: it is not issued
\* through retry_operation
PageOutcomes == {r \in {OK} \cup Errors : r.code # "BucketAlreadyOwnedByYou"}

\* executor.submit for every object of the list
Submitted(objs) == [i \in 1..Len(objs) |-> NewTask]

\* mutant of ListPage: the objects are submitted after the first page
ListPage_FirstPageOnly ==
    /\ pc = "list"
    /\ \E r \in PageOutcomes :
          IF r # OK
          THEN /\ BucketFailed("list_objects_v2", r, 1)
               /\ UNCHANGED <<outer, cfg, source, target, uploads, files,
                              total_objects, total_bytes>>
          ELSE LET pages == source[bucket_name]
                   objects == objects_list \o pages[page + 1]
               IN  /\ objects_list' = objects
                   /\ page' = 0
                   /\ IF Len(objects) = 0
                      THEN pc' = "relist" /\ task' = <<>>
                      ELSE pc' = "collect" /\ task' = Submitted(objects)
                   /\ UNCHANGED <<outer, cfg, source, target, uploads, bidx,
                                  collected, copied_objects, failed_objects,
                                  bucket_bytes, failed_keys, files,
                                  total_objects, total_failed, total_bytes,
                                  failures_by_bucket, last_error>>

\* migrate_bucket: _list_all_objects reads the next page; after the last
\* page the list is returned, and either migrate_bucket returns (0, 0) or
\* every object is submitted to the pool
ListPage ==
    /\ pc = "list"
    /\ \E r \in PageOutcomes :
          IF r # OK
          THEN /\ BucketFailed("list_objects_v2", r, 1)
               /\ UNCHANGED <<outer, cfg, source, target, uploads, files,
                              total_objects, total_bytes>>
          ELSE LET pages == source[bucket_name]
                   objects == objects_list \o pages[page + 1]
               IN  /\ objects_list' = objects
                   /\ IF page + 1 < Len(pages)
                      THEN /\ page' = page + 1
                           /\ UNCHANGED <<pc, task>>
                      ELSE /\ page' = 0
                           /\ IF Len(objects) = 0
                              THEN pc' = "relist" /\ task' = <<>>
                              ELSE pc' = "collect" /\ task' = Submitted(objects)
                   /\ UNCHANGED <<outer, cfg, source, target, uploads, bidx,
                                  collected, copied_objects, failed_objects,
                                  bucket_bytes, failed_keys, files,
                                  total_objects, total_failed, total_bytes,
                                  failures_by_bucket, last_error>>

(***************************************************************************)
(* _copy_object and _multipart_copy, run by the pool for task i.           *)
(***************************************************************************)
\* what a step of a task leaves alone
TaskFrame ==
    UNCHANGED <<outer, cfg, source, pc, bidx, page, objects_list, collected,
                copied_objects, failed_objects, bucket_bytes, failed_keys,
                files, total_objects, total_failed, total_bytes,
                failures_by_bucket, last_error>>

\* mutant of checks_existing: no object is checked
checks_existing_never(key) == FALSE

\* mutant of checks_existing: the check does not depend on skip_existing
checks_existing_always(key) == ~endswith_slash(key)

\* mutant of checks_existing: the key of a folder is checked as well
checks_existing_folders(key) == cfg.skip_existing

\* the existence check applies: skip_existing, and the key is no folder
checks_existing(key) == cfg.skip_existing /\ ~endswith_slash(key)

\* mutant of use_direct: an object of exactly max_direct_size bytes is not
\* sent directly
use_direct_below(direct_read, max_direct_size, size) ==
    direct_read \/ size < max_direct_size

\* if self.direct_read or size <= self.max_direct_size
use_direct(direct_read, max_direct_size, size) ==
    direct_read \/ size <= max_direct_size

\* the first remote call of the transfer of an object that is not skipped
Dispatch(key, size) ==
    IF use_direct(cfg.direct_read, cfg.max_direct_size, size) THEN "get"
    ELSE IF checks_existing(key) THEN "mp_head"
    ELSE "mp_create"

\* mutant of same_size: the comparison is inverted
same_size_inverted(target_size, size) == target_size # size

\* if target_size == size: the object is taken as already migrated
same_size(target_size, size) == target_size = size

\* the pool runs its tasks while the collecting loop waits for them and,
\* when the loop was left by a KeyboardInterrupt, while the exit of the with
\* statement waits in shutdown(wait=True)
PoolOpen == pc \in {"collect", "shutdown"}

\* mutant of StartTask: a queued task is started whatever else is running
StartTask_Unbounded(i) ==
    /\ PoolOpen
    /\ task[i].pc = "queued"
    /\ \A j \in 1..(i - 1) : task[j].pc # "queued"
    /\ LET key == objects_list[i].Key
           size == objects_list[i].Size
       IN  task' = [task EXCEPT ![i].pc =
                        IF checks_existing(key) THEN "head"
                        ELSE Dispatch(key, size)]
    /\ UNCHANGED <<target, uploads>>
    /\ TaskFrame

\* a worker takes the oldest queued task
StartTask(i) ==
    /\ PoolOpen
    /\ task[i].pc = "queued"
    /\ \A j \in 1..(i - 1) : task[j].pc # "queued"
    /\ Cardinality(Running) < cfg.max_workers
    /\ LET key == objects_list[i].Key
           size == objects_list[i].Size
       IN  task' = [task EXCEPT ![i].pc =
                        IF checks_existing(key) THEN "head"
                        ELSE Dispatch(key, size)]
    /\ UNCHANGED <<target, uploads>>
    /\ TaskFrame

\* mutant of HeadObject: an error of the check fails the object
HeadObject_FailsClosed(i, at, next) ==
    /\ PoolOpen
    /\ task[i].pc = at
    /\ LET key == objects_list[i].Key
           size == objects_list[i].Size
           held == target[bucket_name][key]
       IN  \E r \in HeadOutcomes(bucket_name, key) :
              LET t == Logged(task[i],
                          Call("head_object", r = OK, -1, -1, 0, 0, <<>>, NoETag,
                               held))
              IN  task' = [task EXCEPT ![i] =
                              IF r = OK /\ same_size(held, size)
                              THEN Return(t, TRUE, size)
                              ELSE IF r.cls = "ClientError"
                                      /\ r.code \notin {"NoSuchKey", "404", "403"}
                              THEN Return(t, FALSE, 0)
                              ELSE [t EXCEPT !.pc = next]]
    /\ UNCHANGED <<target, uploads>>
    /\ TaskFrame

\* mutant of HeadObject: a skipped object is reported with 0 bytes
HeadObject_SkipCountsNothing(i, at, next) ==
    /\ PoolOpen
    /\ task[i].pc = at
    /\ LET key == objects_list[i].Key
           size == objects_list[i].Size
           held == target[bucket_name][key]
       IN  \E r \in HeadOutcomes(bucket_name, key) :
              LET t == Logged(task[i],
                          Call("head_object", r = OK, -1, -1, 0, 0, <<>>, NoETag,
                               held))
              IN  task' = [task EXCEPT ![i] =
                              IF r = OK /\ same_size(held, size)
                              THEN Return(t, TRUE, 0)
                              ELSE [t EXCEPT !.pc = next]]
    /\ UNCHANGED <<target, uploads>>
    /\ TaskFrame

\* the existence check of _copy_object (at "head") and of _multipart_copy
\* (at "mp_head"): every error of the check is swallowed and the transfer
\* goes on
HeadObject(i, at, next) ==
    /\ PoolOpen
    /\ task[i].pc = at
    /\ LET key == objects_list[i].Key
           size == objects_list[i].Size
           held == target[bucket_name][key]
       IN  \E r \in HeadOutcomes(bucket_name, key) :
              LET t == Logged(task[i],
                          Call("head_object", r = OK, -1, -1, 0, 0, <<>>, NoETag,
                               held))
              IN  task' = [task EXCEPT ![i] =
                              IF r = OK /\ same_size(held, size)
                              THEN Return(t, TRUE, size)
                              ELSE [t EXCEPT !.pc = next]]
    /\ UNCHANGED <<target, uploads>>
    /\ TaskFrame

CheckExisting(i) ==
    HeadObject(i, "head",
               Dispatch(objects_list[i].Key, objects_list[i].Size))

\* mutant of MultipartCheckExisting: the multipart path does not check again
MultipartCheckExisting_Omitted(i) ==
    /\ PoolOpen
    /\ task[i].pc = "mp_head"
    /\ task' = [task EXCEPT ![i].pc = "mp_create"]
    /\ UNCHANGED <<target, uploads>>
    /\ TaskFrame

MultipartCheckExisting(i) == HeadObject(i, "mp_head", "mp_create")

\* direct path: get_object and the read of its body
DirectGet(i) ==
    /\ PoolOpen
    /\ task[i].pc = "get"
    /\ \E r \in ObjectOutcomes, read_ok \in BOOLEAN :
          LET t == Logged(task[i],
                          SimpleCall("get_object", r = OK /\ read_ok))
          IN  task' = [task EXCEPT ![i] =
                          IF r = OK /\ read_ok
                          THEN [t EXCEPT !.pc = "put"]
                          ELSE Return(t, FALSE, 0)]
    /\ UNCHANGED <<target, uploads>>
    /\ TaskFrame

\* the keys the listing of source bucket b holds
ListedKeys(b) ==
    {Flatten(source[b])[k].Key : k \in DOMAIN Flatten(source[b])}

\* mutant of Stored: the target bucket is made a mirror of the source
\* bucket, the objects the source does not list are removed
Stored_Mirrored(b, key, size) ==
    [target EXCEPT ![b] =
        [k \in Keys |-> IF k = key THEN size
                        ELSE IF k \in ListedKeys(b) THEN target[b][k]
                        ELSE Absent]]

\* the target after an object of `size` bytes is stored under `key`
Stored(b, key, size) == [target EXCEPT ![b][key] = size]

\* mutant of DirectPut: the worker counts the object it stored itself
DirectPut_CountsItself(i) ==
    /\ PoolOpen
    /\ task[i].pc = "put"
    /\ LET key == objects_list[i].Key
           size == objects_list[i].Size
       IN  \E r \in ObjectOutcomes :
              LET t == Logged(task[i], SimpleCall("put_object", r = OK))
              IN  IF r = OK
                  THEN /\ target' = Stored(bucket_name, key, size)
                       /\ task' = [task EXCEPT ![i] = Return(t, TRUE, size)]
                       /\ copied_objects' = copied_objects + 1
                       /\ bucket_bytes' = bucket_bytes + size
                  ELSE /\ target' = target
                       /\ task' = [task EXCEPT ![i] = Return(t, FALSE, 0)]
                       /\ UNCHANGED <<copied_objects, bucket_bytes>>
    /\ UNCHANGED <<outer, cfg, source, uploads, pc, bidx, page, objects_list,
                   collected, failed_objects, failed_keys, files,
                   total_objects, total_failed, total_bytes,
                   failures_by_bucket, last_error>>

\* mutant of DirectPut: a put_object that fails leaves a truncated object
DirectPut_PartialOnFailure(i) ==
    /\ PoolOpen
    /\ task[i].pc = "put"
    /\ LET key == objects_list[i].Key
           size == objects_list[i].Size
       IN  \E r \in ObjectOutcomes :
              LET t == Logged(task[i], SimpleCall("put_object", r = OK))
              IN  IF r = OK
                  THEN /\ target' = Stored(bucket_name, key, size)
                       /\ task' = [task EXCEPT ![i] = Return(t, TRUE, size)]
                  ELSE /\ target' = Stored(bucket_name, key, 0)
                       /\ task' = [task EXCEPT ![i] = Return(t, FALSE, 0)]
    /\ UNCHANGED uploads
    /\ TaskFrame

\* direct path: put_object
DirectPut(i) ==
    /\ PoolOpen
    /\ task[i].pc = "put"
    /\ LET key == objects_list[i].Key
           size == objects_list[i].Size
       IN  \E r \in ObjectOutcomes :
              LET t == Logged(task[i], SimpleCall("put_object", r = OK))
              IN  IF r = OK
                  THEN /\ target' = Stored(bucket_name, key, size)
                       /\ task' = [task EXCEPT ![i] = Return(t, TRUE, size)]
                  ELSE /\ target' = target
                       /\ task' = [task EXCEPT ![i] = Return(t, FALSE, 0)]
    /\ UNCHANGED uploads
    /\ TaskFrame

\* multipart path: create_multipart_upload; the target opens a session
\* under a fresh upload id
MultipartCreate(i) ==
    /\ PoolOpen
    /\ task[i].pc = "mp_create"
    /\ LET key == objects_list[i].Key
           size == objects_list[i].Size
           uid == Len(uploads) + 1
       IN  \E r \in ObjectOutcomes :
              IF r = OK
              THEN /\ uploads' = Append(uploads,
                          [bucket |-> bucket_name, key |-> key,
                           state |-> "open", parts |-> {}])
                   /\ task' = [task EXCEPT ![i] =
                          [Logged(task[i],
                                  Call("create_multipart_upload", TRUE, -1, -1,
                                       0, uid, <<>>, NoETag, Absent))
                             EXCEPT !.upload_id = uid,
                                    !.i = 0,
                                    !.pc = IF part_count(size, cfg.chunk_size) > 0
                                           THEN "mp_get" ELSE "mp_complete"]]
              ELSE /\ uploads' = uploads
                   /\ task' = [task EXCEPT ![i] =
                          Return(Logged(task[i],
                                        SimpleCall("create_multipart_upload",
                                                   FALSE)),
                                 FALSE, 0)]
    /\ UNCHANGED target
    /\ TaskFrame

\* mutant of MultipartGet: a part that cannot be read is left out
MultipartGet_SkipsFailedPart(i) ==
    /\ PoolOpen
    /\ task[i].pc = "mp_get"
    /\ LET size == objects_list[i].Size
           lo == start_byte(task[i].i, cfg.chunk_size)
           hi == end_byte(task[i].i, cfg.chunk_size, size)
       IN  \E r \in ObjectOutcomes, read_ok \in BOOLEAN :
              LET t == Logged(task[i],
                          Call("get_object", r = OK /\ read_ok, lo, hi,
                               task[i].i + 1, 0, <<>>, NoETag, Absent))
              IN  task' = [task EXCEPT ![i] =
                              [t EXCEPT !.pc = IF r = OK /\ read_ok
                                               THEN "mp_upload"
                                               ELSE "mp_complete"]]
    /\ UNCHANGED <<target, uploads>>
    /\ TaskFrame

\* multipart path: get_object of the byte range of part i + 1, and the read
\* of its body
MultipartGet(i) ==
    /\ PoolOpen
    /\ task[i].pc = "mp_get"
    /\ LET size == objects_list[i].Size
           lo == start_byte(task[i].i, cfg.chunk_size)
           hi == end_byte(task[i].i, cfg.chunk_size, size)
       IN  \E r \in ObjectOutcomes, read_ok \in BOOLEAN :
              LET t == Logged(task[i],
                          Call("get_object", r = OK /\ read_ok, lo, hi,
                               task[i].i + 1, 0, <<>>, NoETag, Absent))
              IN  task' = [task EXCEPT ![i] =
                              [t EXCEPT !.pc = IF r = OK /\ read_ok
                                               THEN "mp_upload"
                                               ELSE "mp_abort"]]
    /\ UNCHANGED <<target, uploads>>
    /\ TaskFrame

\* mutant of MultipartUpload: the parts are numbered from 0
MultipartUpload_ZeroBased(i) ==
    /\ PoolOpen
    /\ task[i].pc = "mp_upload"
    /\ LET key == objects_list[i].Key
           size == objects_list[i].Size
           lo == start_byte(task[i].i, cfg.chunk_size)
           hi == end_byte(task[i].i, cfg.chunk_size, size)
           part_number == task[i].i
           uid == task[i].upload_id
           etag == ETagOf(key, lo, hi)
       IN  \E r \in ObjectOutcomes :
              LET t == Logged(task[i],
                          Call("upload_part", r = OK, lo, hi, part_number, uid,
                               <<>>, IF r = OK THEN etag ELSE NoETag, Absent))
              IN  IF r = OK
                  THEN /\ uploads' = [uploads EXCEPT ![uid].parts =
                                         @ \cup {part_number}]
                       /\ task' = [task EXCEPT ![i] =
                              [t EXCEPT !.parts =
                                            Append(@, [ETag |-> etag,
                                                       PartNumber |-> part_number]),
                                        !.i = @ + 1,
                                        !.pc = IF part_number + 1 <
                                                    part_count(size, cfg.chunk_size)
                                               THEN "mp_get"
                                               ELSE "mp_complete"]]
                  ELSE /\ uploads' = uploads
                       /\ task' = [task EXCEPT ![i] =
                                      [t EXCEPT !.pc = "mp_abort"]]
    /\ UNCHANGED target
    /\ TaskFrame

\* multipart path: upload_part of part i + 1
MultipartUpload(i) ==
    /\ PoolOpen
    /\ task[i].pc = "mp_upload"
    /\ LET key == objects_list[i].Key
           size == objects_list[i].Size
           lo == start_byte(task[i].i, cfg.chunk_size)
           hi == end_byte(task[i].i, cfg.chunk_size, size)
           part_number == task[i].i + 1
           uid == task[i].upload_id
           etag == ETagOf(key, lo, hi)
       IN  \E r \in ObjectOutcomes :
              LET t == Logged(task[i],
                          Call("upload_part", r = OK, lo, hi, part_number, uid,
                               <<>>, IF r = OK THEN etag ELSE NoETag, Absent))
              IN  IF r = OK
                  THEN /\ uploads' = [uploads EXCEPT ![uid].parts =
                                         @ \cup {part_number}]
                       /\ task' = [task EXCEPT ![i] =
                              [t EXCEPT !.parts =
                                            Append(@, [ETag |-> etag,
                                                       PartNumber |-> part_number]),
                                        !.i = @ + 1,
                                        !.pc = IF part_number <
                                                    part_count(size, cfg.chunk_size)
                                               THEN "mp_get"
                                               ELSE "mp_complete"]]
                  ELSE /\ uploads' = uploads
                       /\ task' = [task EXCEPT ![i] =
                                      [t EXCEPT !.pc = "mp_abort"]]
    /\ UNCHANGED target
    /\ TaskFrame

\* mutant of MultipartComplete: a failed complete returns without an abort
MultipartComplete_NoAbortOnFailure(i) ==
    /\ PoolOpen
    /\ task[i].pc = "mp_complete"
    /\ LET key == objects_list[i].Key
           size == objects_list[i].Size
           uid == task[i].upload_id
       IN  \E r \in ObjectOutcomes :
              LET t == Logged(task[i],
                          Call("complete_multipart_upload", r = OK, -1, -1, 0,
                               uid, task[i].parts, NoETag, Absent))
              IN  IF r = OK
                  THEN /\ uploads' = [uploads EXCEPT ![uid].state = "completed"]
                       /\ target' = Stored(bucket_name, key, size)
                       /\ task' = [task EXCEPT ![i] = Return(t, TRUE, size)]
                  ELSE /\ uploads' = uploads
                       /\ target' = target
                       /\ task' = [task EXCEPT ![i] = Return(t, FALSE, 0)]
    /\ TaskFrame

\* multipart path: complete_multipart_upload
MultipartComplete(i) ==
    /\ PoolOpen
    /\ task[i].pc = "mp_complete"
    /\ LET key == objects_list[i].Key
           size == objects_list[i].Size
           uid == task[i].upload_id
       IN  \E r \in ObjectOutcomes :
              LET t == Logged(task[i],
                          Call("complete_multipart_upload", r = OK, -1, -1, 0,
                               uid, task[i].parts, NoETag, Absent))
              IN  IF r = OK
                  THEN /\ uploads' = [uploads EXCEPT ![uid].state = "completed"]
                       /\ target' = Stored(bucket_name, key, size)
                       /\ task' = [task EXCEPT ![i] = Return(t, TRUE, size)]
                  ELSE /\ uploads' = uploads
                       /\ target' = target
                       /\ task' = [task EXCEPT ![i] =
                                      [t EXCEPT !.pc = "mp_abort"]]
    /\ TaskFrame

\* multipart path, except Exception: abort_multipart_upload, whose own
\* failure is logged, then return False, 0
MultipartAbort(i) ==
    /\ PoolOpen
    /\ task[i].pc = "mp_abort"
    /\ LET uid == task[i].upload_id
       IN  \E r \in ObjectOutcomes :
              /\ uploads' = IF r = OK
                            THEN [uploads EXCEPT ![uid].state = "aborted"]
                            ELSE uploads
              /\ task' = [task EXCEPT ![i] =
                     Return(Logged(task[i],
                                   Call("abort_multipart_upload", r = OK, -1,
                                        -1, 0, uid, <<>>, NoETag, Absent)),
                            FALSE, 0)]
    /\ UNCHANGED target
    /\ TaskFrame

(***************************************************************************)
(* migrate_bucket: the collecting loop and the return.                     *)
(***************************************************************************)
\* if failed_objects <= 10 the keys are only logged
FailedLogLimit == 10

\* mutant of Collect: the future of a task that failed is never yielded
Collect_FailedNeverYielded(i) ==
    /\ pc = "collect"
    /\ task[i].pc = "done"
    /\ task[i].res.copied
    /\ i \notin collected
    /\ collected' = collected \cup {i}
    /\ copied_objects' = copied_objects + 1
    /\ bucket_bytes' = bucket_bytes + task[i].res.size
    /\ UNCHANGED <<outer, cfg, source, target, uploads, pc, bidx, page, objects_list,
                   task, failed_objects, failed_keys, files, total_objects,
                   total_failed, total_bytes, failures_by_bucket, last_error>>

\* mutant of Collect: a failed result is not counted
Collect_FailureNotCounted(i) ==
    /\ pc = "collect"
    /\ task[i].pc = "done"
    /\ i \notin collected
    /\ collected' = collected \cup {i}
    /\ IF task[i].res.copied
       THEN /\ copied_objects' = copied_objects + 1
            /\ bucket_bytes' = bucket_bytes + task[i].res.size
            /\ UNCHANGED <<failed_objects, failed_keys>>
       ELSE /\ failed_keys' = Append(failed_keys, objects_list[i].Key)
            /\ UNCHANGED <<failed_objects, copied_objects, bucket_bytes>>
    /\ UNCHANGED <<outer, cfg, source, target, uploads, pc, bidx, page, objects_list,
                   task, files, total_objects, total_failed, total_bytes,
                   failures_by_bucket, last_error>>

\* mutant of Collect: the key of a copied object is appended to failed_keys
Collect_KeyAlwaysAppended(i) ==
    /\ pc = "collect"
    /\ task[i].pc = "done"
    /\ i \notin collected
    /\ collected' = collected \cup {i}
    /\ failed_keys' = Append(failed_keys, objects_list[i].Key)
    /\ IF task[i].res.copied
       THEN /\ copied_objects' = copied_objects + 1
            /\ bucket_bytes' = bucket_bytes + task[i].res.size
            /\ UNCHANGED failed_objects
       ELSE /\ failed_objects' = failed_objects + 1
            /\ UNCHANGED <<copied_objects, bucket_bytes>>
    /\ UNCHANGED <<outer, cfg, source, target, uploads, pc, bidx, page, objects_list,
                   task, files, total_objects, total_failed, total_bytes,
                   failures_by_bucket, last_error>>

\* as_completed yields a finished future; _copy_object returns its result
\* (it catches every Exception itself, so future.result() does not raise)
Collect(i) ==
    /\ pc = "collect"
    /\ task[i].pc = "done"
    /\ i \notin collected
    /\ collected' = collected \cup {i}
    /\ IF task[i].res.copied
       THEN /\ copied_objects' = copied_objects + 1
            /\ bucket_bytes' = bucket_bytes + task[i].res.size
            /\ UNCHANGED <<failed_objects, failed_keys>>
       ELSE /\ failed_objects' = failed_objects + 1
            /\ failed_keys' = Append(failed_keys, objects_list[i].Key)
            /\ UNCHANGED <<copied_objects, bucket_bytes>>
    /\ UNCHANGED <<outer, cfg, source, target, uploads, pc, bidx, page, objects_list,
                   task, files, total_objects, total_failed, total_bytes,
                   failures_by_bucket, last_error>>

\* mutant of FinishBucket: the collecting loop ends at the first failure
FinishBucket_AtFirstFailure ==
    /\ pc = "collect"
    /\ collected = DOMAIN task \/ failed_objects > 0
    /\ files' = files
    /\ total_objects' = total_objects + copied_objects
    /\ total_bytes' = total_bytes + bucket_bytes
    /\ pc' = "relist"
    /\ UNCHANGED <<outer, cfg, source, target, uploads, bidx, page, objects_list,
                   task, collected, copied_objects, failed_objects,
                   bucket_bytes, failed_keys, total_failed, failures_by_bucket, last_error>>

\* every future is collected: the failed keys are written to a file when
\* there are more than ten, migrate_bucket returns, and migrate_all_buckets
\* adds what it returned to its totals
FinishBucket ==
    /\ pc = "collect"
    /\ collected = DOMAIN task
    /\ \E written \in BOOLEAN :
          files' = IF failed_objects > 0 /\ ~(failed_objects <= FailedLogLimit)
                      /\ written
                   THEN Append(files, [bucket |-> bucket_name,
                                       keys |-> failed_keys])
                   ELSE files
    /\ total_objects' = total_objects + copied_objects
    /\ total_bytes' = total_bytes + bucket_bytes
    /\ pc' = "relist"
    /\ UNCHANGED <<outer, cfg, source, target, uploads, bidx, page, objects_list,
                   task, collected, copied_objects, failed_objects,
                   bucket_bytes, failed_keys, total_failed, failures_by_bucket, last_error>>

\* migrate_all_buckets lists the bucket again to count its failed objects
Relist ==
    /\ pc = "relist"
    /\ \E r \in PageOutcomes :
          IF r # OK
          THEN /\ BucketFailed("list_objects_v2", r, 1)
               /\ UNCHANGED <<outer, cfg, source, target, uploads, files,
                              total_objects, total_bytes>>
          ELSE LET bucket_total == Len(Flatten(source[bucket_name]))
                   objects == IF task = <<>> THEN 0 ELSE copied_objects
                   failed == bucket_total - objects
               IN  /\ total_failed' = total_failed + failed
                   /\ failures_by_bucket' =
                         IF failed > 0
                         THEN [b \in DOMAIN failures_by_bucket \cup {bucket_name}
                                 |-> IF b = bucket_name
                                     THEN Failure(failed, FALSE)
                                     ELSE failures_by_bucket[b]]
                         ELSE failures_by_bucket
                   /\ NextBucket
                   /\ UNCHANGED <<outer, cfg, source, target, uploads, files,
                                  total_objects, total_bytes, last_error>>

Next ==
    \/ EnsureHead
    \/ EnsureCreate
    \/ ListPage
    \/ \E i \in DOMAIN task : StartTask(i)
    \/ \E i \in DOMAIN task : CheckExisting(i)
    \/ \E i \in DOMAIN task : DirectGet(i)
    \/ \E i \in DOMAIN task : DirectPut(i)
    \/ \E i \in DOMAIN task : MultipartCheckExisting(i)
    \/ \E i \in DOMAIN task : MultipartCreate(i)
    \/ \E i \in DOMAIN task : MultipartGet(i)
    \/ \E i \in DOMAIN task : MultipartUpload(i)
    \/ \E i \in DOMAIN task : MultipartComplete(i)
    \/ \E i \in DOMAIN task : MultipartAbort(i)
    \/ \E i \in DOMAIN task : Collect(i)
    \/ FinishBucket
    \/ Relist

Spec == Init /\ [][Next]_vars

(***************************************************************************)
(* The multipart transfer of one object, for every object size and chunk   *)
(* size within the bounds: a migrator without existence check whose        *)
(* max_direct_size is 0, and a source whose first bucket holds one object. *)
(***************************************************************************)
PartsPages(n) ==
    [b \in {"b1", "b2", "b3"} |->
        IF b = "b1" THEN << <<Obj(KeyBig, n)>> >> ELSE << <<>> >>]

InitParts ==
    /\ cfg \in [skip_existing : {FALSE}, direct_read : {FALSE},
                max_workers : {1}, chunk_size : 1..MaxChunk,
                max_direct_size : {0}]
    /\ \E n \in 1..MaxPartSize : source = PartsPages(n)
    /\ target = [b \in {"b1", "b2", "b3"} |-> [k \in Keys |-> Absent]]
    /\ Started
    /\ FirstRun

NextParts ==
    \/ EnsureHead
    \/ EnsureCreate
    \/ ListPage
    \/ \E i \in DOMAIN task : StartTask(i)
    \/ \E i \in DOMAIN task : MultipartCreate(i)
    \/ \E i \in DOMAIN task : MultipartGet(i)
    \/ \E i \in DOMAIN task : MultipartUpload(i)
    \/ \E i \in DOMAIN task : MultipartComplete(i)
    \/ \E i \in DOMAIN task : MultipartAbort(i)
    \/ \E i \in DOMAIN task : Collect(i)
    \/ FinishBucket
    \/ Relist

SpecParts == InitParts /\ [][NextParts]_vars

(***************************************************************************)
(* One call of retry_operation, followed from invocation to invocation,    *)
(* for every max_retries and retry_delay within the bounds and every       *)
(* behaviour of the wrapped function.                                      *)
(***************************************************************************)
\* what is left alone by a step that is not a step of the migration
run_vars ==
    <<cfg, source, target, uploads, pc, bidx, page, objects_list, task,
      collected, copied_objects, failed_objects, bucket_bytes, failed_keys,
      files, total_objects, total_failed, total_bytes, failures_by_bucket,
      last_error>>

\* what one invocation of the wrapped function can do
FuncOutcomes ==
    {OK, ClientError("SlowDown"), ClientError("RequestTimeout"),
     ClientError("AccessDenied"), ConnectionErr, TimeoutErr, OtherExc}

\* the events of a call of retry_operation: an invocation of the function
\* with what it did, and a time.sleep
Invoked(out) == [ev |-> "call", out |-> out, secs |-> 0]

Slept(secs) == [ev |-> "sleep", out |-> NoExc, secs |-> secs]

Invocations(r) == Cardinality({k \in DOMAIN r.trace : r.trace[k].ev = "call"})

\* mutant of retriable: every client error is retried
retriable_any(error_code) == TRUE

\* if error_code in RETRIABLE_ERROR_CODES
retriable(error_code) == error_code \in RETRIABLE_ERROR_CODES

\* mutant of wait_time: the delay grows by retry_delay with every retry
wait_time_linear(delay, retry_count) == delay * retry_count

\* wait_time = retry_delay * (2 ** (retry_count - 1))
wait_time(delay, retry_count) == delay * Pow2(retry_count - 1)

\* mutant of Retried: no sleep after the failure that uses up the retries
Retried_NoSleepAtLast(r, e) ==
    [r EXCEPT !.retry_count = @ + 1,
              !.trace = IF r.retry_count + 1 < r.max_retries
                        THEN Append(@, Slept(wait_time(r.retry_delay,
                                                       r.retry_count + 1)))
                        ELSE @,
              !.last_exception = e]

\* a transient failure: the counter is increased, the thread sleeps, the
\* exception is kept
Retried(r, e) ==
    [r EXCEPT !.retry_count = @ + 1,
              !.trace = Append(@, Slept(wait_time(r.retry_delay,
                                                  r.retry_count + 1))),
              !.last_exception = e]

\* one iteration of the while loop: the function is invoked
RetryCall ==
    /\ rt.pc = "loop"
    /\ rt.retry_count < rt.max_retries
    /\ LET o == rt.func[Invocations(rt) + 1]
           called == [rt EXCEPT !.trace = Append(@, Invoked(o))]
           raise == [called EXCEPT !.pc = "raised", !.result = o]
       IN  rt' = IF o = OK
                 THEN [called EXCEPT !.pc = "returned", !.result = OK]
                 ELSE IF o.cls = "ClientError"
                 THEN IF retriable(o.code) THEN Retried(called, o) ELSE raise
                 ELSE IF o.cls \in {"ConnectionError", "TimeoutError"}
                 THEN Retried(called, o)
                 ELSE raise
    /\ UNCHANGED <<run_vars, fmt, conf, exit_code, runs>>

\* mutant of RetryExhausted: the call returns None when the retries are used
\* up
RetryExhausted_ReturnsNone ==
    /\ rt.pc = "loop"
    /\ ~(rt.retry_count < rt.max_retries)
    /\ rt' = [rt EXCEPT !.pc = "returned", !.result = NoExc]
    /\ UNCHANGED <<run_vars, fmt, conf, exit_code, runs>>

\* the while loop ends: raise last_exception, or return None
RetryExhausted ==
    /\ rt.pc = "loop"
    /\ ~(rt.retry_count < rt.max_retries)
    /\ rt' = IF rt.last_exception # NoExc
             THEN [rt EXCEPT !.pc = "raised", !.result = rt.last_exception]
             ELSE [rt EXCEPT !.pc = "returned", !.result = NoExc]
    /\ UNCHANGED <<run_vars, fmt, conf, exit_code, runs>>

\* a target without objects
EmptyTarget == [b \in {"b1", "b2", "b3"} |-> [k \in Keys |-> Absent]]

InitRetry ==
    /\ \E n \in 1..MaxRetriesN, d \in 1..MaxDelay :
          \E f \in [1..(n + 1) -> FuncOutcomes] :
              rt = [pc |-> "loop", func |-> f, max_retries |-> n,
                    retry_delay |-> d, retry_count |-> 0,
                    last_exception |-> NoExc, result |-> NoExc,
                    trace |-> <<>>]
    /\ fmt = NoFormat
    /\ conf = Resolved
    /\ exit_code = NoExit
    /\ runs = <<>>
    /\ cfg = [skip_existing |-> TRUE, direct_read |-> FALSE,
              max_workers |-> 1, chunk_size |-> RunChunkSize,
              max_direct_size |-> RunMaxDirectSize]
    /\ source = SourcePages
    /\ target = EmptyTarget
    /\ Started

NextRetry ==
    \/ RetryCall
    \/ RetryExhausted

SpecRetry == InitRetry /\ [][NextRetry]_vars

(***************************************************************************)
(* main(): the arguments and the configuration file, the construction of   *)
(* the migrator, the run, a KeyboardInterrupt during the run, the exit.    *)
(***************************************************************************)
\* the parameters main() requires, by the names of missing_args
Required ==
    {"source-endpoint", "source-access-key", "source-secret-key",
     "target-endpoint", "target-access-key", "target-secret-key", "buckets"}

\* the sets of required parameters the command line or the file gives
ParamSets ==
    {{}, Required \ {"buckets"}, Required \ {"source-endpoint"}, Required}

\* the command lines and configuration files main() is started with:
\* config_file is "none" without --config, "empty" when load_config
\* returns {}, "raises" when it raises (an option is missing in a section),
\* "loaded" when it returns the values of the file
Confs ==
    {c \in [state : {"args"},
            config_file : {"none", "empty", "raises", "loaded"},
            args : ParamSets, file : ParamSets,
            no_skip_existing : BOOLEAN, file_skip_existing : BOOLEAN,
            max_workers : 1..MaxWorkers] :
        c.config_file # "loaded" => c.file = {} /\ c.file_skip_existing}

\* before the migrator is built
NoMigrator ==
    [skip_existing |-> FALSE, direct_read |-> FALSE, max_workers |-> 0,
     chunk_size |-> 0, max_direct_size |-> 0]

\* args.x or config.get(x), for every required parameter
missing_args(c) ==
    {x \in Required :
        x \notin c.args /\ (c.config_file # "loaded" \/ x \notin c.file)}

\* skip_existing = not args.no_skip_existing if hasattr(args,
\* 'no_skip_existing') else config.get("skip_existing", True): argparse
\* always sets the attribute
skip_existing(c) == ~c.no_skip_existing

\* main() up to the call of migrate_all_buckets
Main ==
    /\ pc = "main"
    /\ IF conf.config_file \in {"empty", "raises"} \/ missing_args(conf) # {}
       THEN /\ exit_code' = 1
            /\ pc' = "exited"
            /\ UNCHANGED <<cfg, conf>>
       ELSE /\ cfg' = [skip_existing |-> skip_existing(conf),
                       direct_read |-> FALSE,
                       max_workers |-> conf.max_workers,
                       chunk_size |-> RunChunkSize,
                       max_direct_size |-> RunMaxDirectSize]
            /\ conf' = Resolved
            /\ pc' = "ensure_head"
            /\ UNCHANGED exit_code
    /\ UNCHANGED <<rt, fmt, runs, source, target, uploads, bidx, page,
                   objects_list, task, collected, copied_objects,
                   failed_objects, bucket_bytes, failed_keys, files,
                   total_objects, total_failed, total_bytes,
                   failures_by_bucket, last_error>>

\* what an exit or an interrupt leaves alone
ExitFrame ==
    UNCHANGED <<rt, fmt, conf, runs, cfg, source, target, uploads, bidx,
                page,
                objects_list, task, collected, copied_objects,
                failed_objects, bucket_bytes, failed_keys, files,
                total_objects, total_failed, total_bytes, failures_by_bucket,
                last_error>>

\* a KeyboardInterrupt is raised in the main thread inside
\* migrate_all_buckets.  No except Exception clause catches it.  Inside the
\* with statement of migrate_bucket the exit of the statement first waits
\* for the pool; elsewhere it reaches main() at once
Interrupt ==
    /\ pc \in {"ensure_head", "ensure_create", "list", "collect", "relist"}
    /\ IF pc = "collect"
       THEN pc' = "shutdown" /\ UNCHANGED exit_code
       ELSE pc' = "exited" /\ exit_code' = 130
    /\ ExitFrame

\* mutant of MainExit: a run with failures exits with 1
MainExit_FailuresFatal ==
    /\ pc = "done"
    /\ exit_code' = IF total_failed > 0 THEN 1 ELSE 0
    /\ pc' = "exited"
    /\ ExitFrame

\* migrate_all_buckets has returned: sys.exit(0)
MainExit ==
    /\ pc = "done"
    /\ exit_code' = 0
    /\ pc' = "exited"
    /\ ExitFrame

\* shutdown(wait=True) returns when every submitted task has run; the
\* KeyboardInterrupt then reaches main(): sys.exit(130)
PoolShutdown ==
    /\ pc = "shutdown"
    /\ \A i \in DOMAIN task : task[i].pc = "done"
    /\ exit_code' = 130
    /\ pc' = "exited"
    /\ ExitFrame

InitMain ==
    /\ conf \in Confs
    /\ cfg = NoMigrator
    /\ rt = NoCall
    /\ fmt = NoFormat
    /\ exit_code = NoExit
    /\ runs = <<>>
    /\ source = SourcePages
    /\ target = EmptyTarget
    /\ Fresh
    /\ pc = "main"

NextMain ==
    \/ Main
    \/ Interrupt
    \/ PoolShutdown
    \/ MainExit
    \/ Next

SpecMain == InitMain /\ [][NextMain]_vars

(***************************************************************************)
(* The process is run again, with the same arguments and on the stores as  *)
(* the run before left them, after a run that ended without a failure.     *)
(***************************************************************************)
\* what migrate_all_buckets returned
Returned == [objects |-> total_objects, bytes |-> total_bytes,
             failed |-> total_failed]

RunAgain ==
    /\ pc = "exited"
    /\ exit_code = 0
    /\ total_failed = 0
    /\ Len(runs) + 1 < MaxRuns
    /\ runs' = Append(runs, Returned)
    /\ exit_code' = NoExit
    /\ pc' = "ensure_head"
    /\ bidx' = 1
    /\ page' = 0
    /\ objects_list' = <<>>
    /\ task' = <<>>
    /\ collected' = {}
    /\ copied_objects' = 0
    /\ failed_objects' = 0
    /\ bucket_bytes' = 0
    /\ failed_keys' = <<>>
    /\ total_objects' = 0
    /\ total_failed' = 0
    /\ total_bytes' = 0
    /\ failures_by_bucket' = [b \in {} |-> 0]
    /\ last_error' = NoError
    /\ UNCHANGED <<rt, fmt, conf, cfg, source, target, uploads, files>>

InitTwice ==
    /\ cfg \in [skip_existing : {TRUE}, direct_read : {FALSE},
                max_workers : 1..MaxWorkers, chunk_size : {RunChunkSize},
                max_direct_size : {RunMaxDirectSize}]
    /\ source = SourcePages
    /\ target = EmptyTarget
    /\ Started
    /\ FirstRun

NextTwice ==
    \/ MainExit
    \/ RunAgain
    \/ Next

SpecTwice == InitTwice /\ [][NextTwice]_vars

(***************************************************************************)
(* A bucket of large objects, one of them under a key that ends in '/',    *)
(* migrated with the existence check on while another client of the target *)
(* stores objects of the source under their keys.                          *)
(***************************************************************************)
LargePages ==
    [b \in {"b1", "b2", "b3"} |->
        IF b = "b1"
        THEN << <<Obj(KeyBig, BigObjSize), Obj(KeyDir, BigObjSize)>> >>
        ELSE IF b = "b2" THEN << <<Obj(KeyDir, 0)>> >>
        ELSE << <<>> >>]

\* the state of the target may change between the check of _copy_object
\* and the check of _multipart_copy: another client stores, under a key of
\* the bucket the target does not hold yet, an object of the size of the
\* source object
OtherWriter ==
    /\ pc \in {"ensure_head", "ensure_create", "list", "collect", "relist"}
    /\ \E k \in DOMAIN Flatten(source[bucket_name]) :
          LET obj == Flatten(source[bucket_name])[k]
          IN  /\ target[bucket_name][obj.Key] = Absent
              /\ target' = Stored(bucket_name, obj.Key, obj.Size)
    /\ UNCHANGED <<outer, cfg, source, uploads, pc, bidx, page, objects_list,
                   task, collected, copied_objects, failed_objects,
                   bucket_bytes, failed_keys, files, total_objects,
                   total_failed, total_bytes, failures_by_bucket, last_error>>

\* the target holds the two directory markers with the sizes of the source
InitLarge ==
    /\ cfg \in [skip_existing : {TRUE}, direct_read : {FALSE},
                max_workers : 1..MaxWorkers, chunk_size : {RunChunkSize},
                max_direct_size : {RunMaxDirectSize}]
    /\ source = LargePages
    /\ target = [b \in {"b1", "b2", "b3"} |->
                    [k \in Keys |->
                        IF b = "b1" /\ k = KeyDir THEN BigObjSize
                        ELSE IF b = "b2" /\ k = KeyDir THEN 0
                        ELSE Absent]]
    /\ Started
    /\ FirstRun

NextLarge ==
    \/ OtherWriter
    \/ Next

SpecLarge == InitLarge /\ [][NextLarge]_vars

(***************************************************************************)
(* _format_size.  A size is written in base 1024, most significant digit   *)
(* first, and the double arithmetic of the method is followed on that      *)
(* writing: the division by a power of 1024 is exact, the logarithm is     *)
(* not.                                                                    *)
(***************************************************************************)
Base == 1024

size_names == <<"B", "KB", "MB", "GB", "TB", "PB">>

\* what a size of m digits lacks to 1024 ** m when that is at most Base;
\* more than Base otherwise
below_power(ds) ==
    IF \A k \in 1..(Len(ds) - 1) : ds[k] = Base - 1
    THEN Base - ds[Len(ds)]
    ELSE Base * Base

\* half the distance from m to the double before it is 2 ** -half_ulp(m)
half_ulp(m) ==
    IF m <= 1 THEN 54 ELSE IF m = 2 THEN 53 ELSE IF m <= 4 THEN 52 ELSE 51

\* math.log(size_bytes, 1024) of a size that lacks d to 1024 ** m is
\* m - d / (1024 ** m * ln 1024) to the first order, and the double that is
\* returned is m itself when the difference is below half the distance to
\* the double before m; ln 1024 is 6.93
log_is_next_integer(m, d) ==
    LET e == 10 * m - half_ulp(m) + 1
    IN  e >= 0 /\ d * 200 < 693 * Pow2(e)

\* i = int(math.log(size_bytes, 1024)); for a size of 1024 ** 6 and more
\* it is 6 or more whichever way the logarithm is rounded
log_index(ds) ==
    IF Len(ds) <= Len(size_names)
       /\ log_is_next_integer(Len(ds), below_power(ds))
    THEN Len(ds)
    ELSE Len(ds) - 1

\* 100 times a fraction given by its digits after the point: the integer
\* part, and the digits that remain after the point
RECURSIVE scaled(_)
scaled(frac) ==
    IF frac = <<>> THEN [int |-> 0, frac |-> <<>>]
    ELSE LET right == scaled(Tail(frac))
             v == frac[1] * 100 + right.int
         IN  [int |-> v \div Base, frac |-> <<v % Base>> \o right.frac]

\* s = round(size_bytes / p, 2) with p = math.pow(1024, i), in hundredths:
\* round() takes the nearest hundredth and, of two that are equally near,
\* the even one
hundredths(ds, i) ==
    LET n == Len(ds)
        whole == IF i < n THEN ds[n - i] ELSE 0
        h == scaled(SubSeq(ds, n - i + 1, n))
        low == whole * 100 + h.int
        half == Base \div 2
        rest_zero == \A k \in 2..Len(h.frac) : h.frac[k] = 0
        up == /\ h.frac # <<>>
              /\ \/ h.frac[1] > half
                 \/ h.frac[1] = half /\ ~rest_zero
                 \/ h.frac[1] = half /\ rest_zero /\ low % 2 = 1
    IN  IF up THEN low + 1 ELSE low

\* f"{s}": the digits before the point, the point and the decimals without
\* a closing zero, one decimal at least
float_text(h) ==
    LET dec == h % 100
    IN  ToString(h \div 100) \o "." \o
        (IF dec % 10 = 0 THEN ToString(dec \div 10)
         ELSE IF dec < 10 THEN "0" \o ToString(dec)
         ELSE ToString(dec))

\* what _format_size returns, or the IndexError of size_names[i]
format_size(size_bytes) ==
    IF size_bytes = <<0>> THEN [raised |-> FALSE, text |-> "0B"]
    ELSE LET i == log_index(size_bytes)
         IN  IF i + 1 > Len(size_names)
             THEN [raised |-> TRUE, text |-> "IndexError"]
             ELSE [raised |-> FALSE,
                   text |-> float_text(hundredths(size_bytes, i)) \o " "
                            \o size_names[i + 1]]

\* the call returns or raises
FormatSize ==
    /\ fmt.pc = "call"
    /\ fmt' = [fmt EXCEPT !.pc = "done",
                          !.raised = format_size(fmt.size_bytes).raised,
                          !.text = format_size(fmt.size_bytes).text]
    /\ UNCHANGED <<run_vars, rt, conf, exit_code, runs>>

\* the sizes the method is called with: 0, and the sizes of up to MaxDigits
\* digits with one digit repeated between the first and the last, among
\* them the powers of 1024, the sizes next to them and sizes whose
\* hundredths are halves
SizeInputs ==
    {<<0>>} \cup
    {[k \in 1..n |-> IF k = 1 THEN a ELSE IF k = n THEN z ELSE m] :
        n \in 1..MaxDigits, a \in {1, 2, 512, 1023}, m \in {0, 1023},
        z \in {0, 1, 5, 6, 128, 384, 512, 1020, 1021, 1023}}

InitFormat ==
    /\ \E ds \in SizeInputs :
          fmt = [pc |-> "call", size_bytes |-> ds, raised |-> FALSE,
                 text |-> ""]
    /\ rt = NoCall
    /\ conf = Resolved
    /\ exit_code = NoExit
    /\ runs = <<>>
    /\ cfg = [skip_existing |-> TRUE, direct_read |-> FALSE,
              max_workers |-> 1, chunk_size |-> RunChunkSize,
              max_direct_size |-> RunMaxDirectSize]
    /\ source = SourcePages
    /\ target = EmptyTarget
    /\ Started

NextFormat == FormatSize

SpecFormat == InitFormat /\ [][NextFormat]_vars

(***************************************************************************)
(* Termination: a call of retry_operation followed from invocation to      *)
(* invocation until it is left, and then one run of migrate_all_buckets.   *)
(* No KeyboardInterrupt is delivered.  Every remote call returns or        *)
(* raises, and the interpreter and the worker threads of the pool go on    *)
(* running: a step that stays possible is taken.                           *)
(***************************************************************************)
\* the frame of a call of retry_operation that was left
Left == [NoCall EXCEPT !.pc = "left"]

\* return result (line 62), raise (lines 72, 82, 86) or the return at the
\* end of the function: the frame of the call is dropped, and the run of
\* migrate_all_buckets begins
RetryLeave ==
    /\ pc = "retry"
    /\ rt.pc \in {"returned", "raised"}
    /\ rt' = Left
    /\ pc' = "ensure_head"
    /\ UNCHANGED <<fmt, conf, exit_code, runs, cfg, source, target, uploads, bidx, page,
                   objects_list, task, collected, copied_objects,
                   failed_objects, bucket_bytes, failed_keys, files,
                   total_objects, total_failed, total_bytes,
                   failures_by_bucket, last_error>>

InitLive ==
    /\ \E n \in 1..MaxRetriesN :
          \E f \in [1..(n + 1) -> FuncOutcomes] :
              rt = [pc |-> "loop", func |-> f, max_retries |-> n,
                    retry_delay |-> retry_delay, retry_count |-> 0,
                    last_exception |-> NoExc, result |-> NoExc,
                    trace |-> <<>>]
    /\ fmt = NoFormat
    /\ conf = Resolved
    /\ exit_code = NoExit
    /\ runs = <<>>
    /\ cfg \in [skip_existing : {TRUE}, direct_read : {FALSE},
                max_workers : 1..MaxWorkers, chunk_size : {RunChunkSize},
                max_direct_size : {RunMaxDirectSize}]
    /\ source = SourcePages
    /\ target = EmptyTarget
    /\ Fresh
    /\ pc = "retry"

NextLive ==
    \/ RetryCall
    \/ RetryExhausted
    \/ RetryLeave
    \/ Next

SpecLive == InitLive /\ [][NextLive]_vars /\ WF_vars(NextLive)

(***************************************************************************)
(* Vocabulary of the properties.                                           *)
(***************************************************************************)
\* migrate_bucket has returned from its collecting loop
BucketCompleted == pc = "relist" /\ Len(objects_list) > 0

TransferOps ==
    {"get_object", "put_object", "create_multipart_upload", "upload_part",
     "complete_multipart_upload"}

Finished(i) == task[i].pc = "done"

\* task i issued a call of its transfer that failed
FailedTransferCall(i) ==
    \E k \in DOMAIN task[i].calls :
        task[i].calls[k].op \in TransferOps /\ ~task[i].calls[k].ok

\* task i returned success without a call other than head_object
Skipped(i) ==
    /\ Finished(i)
    /\ task[i].res.copied
    /\ \A k \in DOMAIN task[i].calls : task[i].calls[k].op = "head_object"

Occurrences(seq, x) == Cardinality({k \in DOMAIN seq : seq[k] = x})

(***************************************************************************)
(* C1..C4: accounting and failure isolation.                               *)
(***************************************************************************)
\* C1: when migrate_bucket completes, the objects counted as succeeded plus
\* the objects counted as failed are the objects enumerated for the bucket.
C1_CountsAddUp ==
    pc = "relist" => copied_objects + failed_objects = Len(objects_list)

\* a bucket completed with a skipped object and a failed transfer
C1_Witness ==
    /\ BucketCompleted
    /\ \E i, j \in DOMAIN task : Skipped(i) /\ FailedTransferCall(j)
    /\ copied_objects = 1
    /\ failed_objects = 1

\* C2: every enumerated object has one future, and once collected it is
\* either counted as succeeded or its key is in failed_keys exactly once,
\* never both; failed_keys holds enumerated keys only; at completion every
\* object is collected.
C2_OneOutcomePerObject ==
    pc \in {"collect", "relist"} /\ Len(objects_list) > 0 =>
        /\ DOMAIN task = DOMAIN objects_list
        /\ \A i \in DOMAIN task :
              Occurrences(failed_keys, objects_list[i].Key) =
                  IF i \in collected /\ ~task[i].res.copied THEN 1 ELSE 0
        /\ copied_objects =
              Cardinality({i \in collected : task[i].res.copied})
        /\ failed_objects = Len(failed_keys)
        /\ \A k \in DOMAIN failed_keys :
              \E i \in DOMAIN objects_list :
                  objects_list[i].Key = failed_keys[k]
        /\ pc = "relist" => collected = DOMAIN task

\* a bucket completed with one object copied and the other in failed_keys
C2_Witness ==
    /\ BucketCompleted
    /\ bidx = 1
    /\ copied_objects = 1
    /\ failed_keys = <<KeyBig>>
    /\ task[1].res.copied

\* C3: a failed transfer call makes its own object's result (False, 0) and
\* nothing else: the collecting loop is left only by the return of
\* migrate_bucket, with every object collected, and no step of the loop
\* fails the bucket.
C3_FailureStaysWithObject ==
    /\ [](\A i \in DOMAIN task :
            Finished(i) /\ FailedTransferCall(i)
                => task[i].res = Result(FALSE, 0))
    /\ [](BucketCompleted =>
            \A i \in DOMAIN objects_list : i \in collected /\ Finished(i))
    /\ [][pc = "collect" =>
            /\ pc' \in {"collect", "relist"}
            /\ pc' = "relist" => collected = DOMAIN task
            /\ bidx' = bidx
            /\ total_failed' = total_failed
            /\ failures_by_bucket' = failures_by_bucket]_vars

\* a bucket completed in which the first object's put failed and the second
\* object was then copied by a multipart transfer
C3_Witness ==
    /\ BucketCompleted
    /\ bidx = 1
    /\ FailedTransferCall(1)
    /\ ~task[1].res.copied
    /\ task[2].res.copied
    /\ ~Skipped(2)
    /\ collected = {1, 2}

\* the step fails the whole bucket
WholeBucketFails ==
    /\ bucket_name \notin DOMAIN failures_by_bucket
    /\ bucket_name \in DOMAIN failures_by_bucket'
    /\ failures_by_bucket'[bucket_name].whole

\* C4: an exception that fails a whole bucket adds exactly one to the run's
\* failure total and the run goes on with the next bucket of the list; the
\* run ends only after the last bucket.
C4_BucketFailureIsolated ==
    /\ [][WholeBucketFails =>
            /\ total_failed' = total_failed + 1
            /\ IF bidx < Len(bucket_names)
               THEN bidx' = bidx + 1 /\ pc' = "ensure_head"
               ELSE pc' = "done"]_vars
    /\ [](pc = "done" => bidx = Len(bucket_names))

\* the first bucket failed as a whole and the object of the second bucket
\* was copied afterwards
C4_Witness ==
    /\ "b1" \in DOMAIN failures_by_bucket
    /\ failures_by_bucket["b1"].whole
    /\ bidx = 2
    /\ BucketCompleted
    /\ copied_objects = 1

(***************************************************************************)
(* C5..C7: the skip policy and the choice of the transfer path.            *)
(***************************************************************************)
\* the existence check applies to the object of task i
Checked(i) == cfg.skip_existing /\ ~endswith_slash(objects_list[i].Key)

\* task i issued a call that reads the source object or opens a session
TransferAttempted(i) ==
    \E k \in DOMAIN task[i].calls :
        task[i].calls[k].op \in {"get_object", "create_multipart_upload"}

C6_CheckFailsOpen ==
    \A i \in DOMAIN task :
        \A k \in DOMAIN task[i].calls :
            LET c == task[i].calls[k]
                size == objects_list[i].Size
                direct == cfg.direct_read \/ size <= cfg.max_direct_size
            IN  c.op = "head_object" /\ ~c.ok =>
                    /\ Finished(i) => Len(task[i].calls) > k
                    /\ Len(task[i].calls) > k =>
                          task[i].calls[k + 1].op =
                              IF direct THEN "get_object"
                              ELSE IF k = 1 THEN "head_object"
                              ELSE "create_multipart_upload"

\* an object the target holds with the size of the source, whose check
\* failed (so with another error than not-found), was then copied
C6_Witness ==
    \E i \in DOMAIN task :
        /\ Finished(i)
        /\ Len(task[i].calls) >= 3
        /\ task[i].calls[1].op = "head_object"
        /\ ~task[i].calls[1].ok
        /\ task[i].calls[1].tsize = objects_list[i].Size
        /\ task[i].calls[2].op = "get_object"
        /\ task[i].res.copied

\* the units of the sizes of the configuration
KB == 1024

MB == 1024 * KB

\* C7: the first call of a transfer is the whole-object get_object, followed
\* by nothing but put_object, if and only if direct_read is set or
\* size <= max_direct_size; otherwise it is create_multipart_upload and
\* neither put_object nor a whole-object get_object is issued.  With
\* direct-read off and max-direct-size 500 MB, 1 KB is direct and 600 MB is
\* multipart.
C7_DirectIffSmallOrDirectRead ==
    /\ \A i \in DOMAIN task :
          \A k \in DOMAIN task[i].calls :
              LET calls == task[i].calls
                  size == objects_list[i].Size
              IN  (calls[k].op # "head_object"
                       /\ \A j \in 1..(k - 1) : calls[j].op = "head_object")
                  => IF cfg.direct_read \/ size <= cfg.max_direct_size
                     THEN /\ calls[k].op = "get_object"
                          /\ calls[k].lo = -1
                          /\ \A j \in (k + 1)..Len(calls) :
                                calls[j].op = "put_object"
                     ELSE /\ calls[k].op = "create_multipart_upload"
                          /\ \A j \in k..Len(calls) :
                                /\ calls[j].op # "put_object"
                                /\ calls[j].op = "get_object"
                                      => calls[j].lo >= 0
    /\ use_direct(FALSE, 500 * MB, 1 * KB)
    /\ ~use_direct(FALSE, 500 * MB, 600 * MB)

\* with direct_read off, the object of max_direct_size bytes was put whole
\* and the larger object was completed as a multipart upload
C7_Witness ==
    /\ BucketCompleted
    /\ bidx = 1
    /\ ~cfg.direct_read
    /\ \E k \in DOMAIN task[1].calls :
          task[1].calls[k].op = "put_object" /\ task[1].calls[k].ok
    /\ \E k \in DOMAIN task[2].calls :
          task[2].calls[k].op = "complete_multipart_upload"
              /\ task[2].calls[k].ok

(***************************************************************************)
(* C8..C10: the multipart transfer, under SpecParts.                       *)
(***************************************************************************)
\* the get_object calls of byte ranges, and the upload_part calls, of task i
RangeGets(i) ==
    SelectSeq(task[i].calls, LAMBDA c : c.op = "get_object" /\ c.lo >= 0)

Uploads(i) == SelectSeq(task[i].calls, LAMBDA c : c.op = "upload_part")

\* ceil(size / c)
Ceil(size, c) == CHOOSE k \in 0..size : k * c >= size /\ (k - 1) * c < size

RECURSIVE TotalLength(_)
TotalLength(ranges) ==
    IF ranges = <<>> THEN 0
    ELSE Head(ranges).hi - Head(ranges).lo + 1 + TotalLength(Tail(ranges))

\* every part of the object of task i has been uploaded
AllPartsUploaded(i) ==
    \/ task[i].pc = "mp_complete"
    \/ \E k \in DOMAIN task[i].calls :
          task[i].calls[k].op = "complete_multipart_upload"

\* C8: part j (from 1) of an object of size > 0 is read and uploaded as the
\* bytes [(j-1)*c, min(j*c - 1, size - 1)]; the ranges are not empty, each
\* starts where the one before it ended, and once every part is uploaded
\* there are ceil(size/c) of them, the last ends at size - 1 and their
\* lengths sum to size.
C8_ChunkBoundaries ==
    \A i \in DOMAIN task :
        LET size == objects_list[i].Size
            c == cfg.chunk_size
            G == RangeGets(i)
            U == Uploads(i)
        IN  /\ \A j \in DOMAIN G :
                  /\ G[j].lo = (j - 1) * c
                  /\ G[j].hi = IF j * c - 1 <= size - 1 THEN j * c - 1
                               ELSE size - 1
                  /\ G[j].lo <= G[j].hi
                  /\ j > 1 => G[j].lo = G[j - 1].hi + 1
            /\ \A j \in DOMAIN U : U[j].lo = G[j].lo /\ U[j].hi = G[j].hi
            /\ Len(G) <= Ceil(size, c)
            /\ AllPartsUploaded(i) =>
                  /\ Len(U) = Ceil(size, c)
                  /\ Len(G) = Len(U)
                  /\ U[Len(U)].hi = size - 1
                  /\ TotalLength(U) = size

\* an object was completed in three parts, the last shorter than the chunk
C8_Witness ==
    \E i \in DOMAIN task :
        /\ Finished(i)
        /\ task[i].res.copied
        /\ Len(Uploads(i)) = 3
        /\ Uploads(i)[3].hi - Uploads(i)[3].lo + 1 < cfg.chunk_size

\* C9: the calls of a multipart transfer after create_multipart_upload are
\* get_object and upload_part of part 1, then of part 2, and so on, each
\* issued after the call before it returned; complete_multipart_upload is
\* issued after ceil(size/c) parts were uploaded, all successfully, with the
\* list of the part numbers 1, 2, ... in this order, each with the ETag its
\* upload_part returned.
C9_PartsInOrderThenComplete ==
    \A i \in DOMAIN task :
        LET calls == task[i].calls
            size == objects_list[i].Size
            U == Uploads(i)
        IN  /\ \A j \in DOMAIN U : U[j].part = j
            /\ \A k \in DOMAIN calls :
                  /\ calls[k].op = "upload_part" =>
                        /\ calls[k - 1].op = "get_object"
                        /\ calls[k - 1].ok
                        /\ calls[k - 1].part = calls[k].part
                  /\ calls[k].op = "get_object" =>
                        IF calls[k].part = 1
                        THEN calls[k - 1].op = "create_multipart_upload"
                        ELSE /\ calls[k - 1].op = "upload_part"
                             /\ calls[k - 1].ok
                             /\ calls[k - 1].part = calls[k].part - 1
                  /\ calls[k].op = "complete_multipart_upload" =>
                        /\ Len(U) = Ceil(size, cfg.chunk_size)
                        /\ \A j \in DOMAIN U : U[j].ok
                        /\ calls[k - 1] = U[Len(U)]
                        /\ calls[k].parts =
                              [j \in 1..Len(U) |->
                                  [ETag |-> U[j].etag, PartNumber |-> j]]

\* a multipart upload of three parts was completed
C9_Witness ==
    \E i \in DOMAIN task :
        \E k \in DOMAIN task[i].calls :
            /\ task[i].calls[k].op = "complete_multipart_upload"
            /\ task[i].calls[k].ok
            /\ Len(task[i].calls[k].parts) = 3

\* call c is the read or the upload of a part, and failed
FailedPart(c) ==
    /\ ~c.ok
    /\ \/ c.op = "get_object" /\ c.lo >= 0
       \/ c.op = "upload_part"

\* C10: after the read or the upload of a part failed, the only further
\* call of the transfer is abort_multipart_upload for the upload id of its
\* session; the session is never completed, and the object's result is
\* (False, 0), also when the abort call fails.
C10_PartFailureAborts ==
    \A i \in DOMAIN task :
        \A k \in DOMAIN task[i].calls :
            LET calls == task[i].calls
            IN  FailedPart(calls[k]) =>
                    /\ task[i].upload_id > 0
                    /\ uploads[task[i].upload_id].state # "completed"
                    /\ \A j \in DOMAIN calls :
                          /\ calls[j].op # "complete_multipart_upload"
                          /\ calls[j].op = "create_multipart_upload"
                                => calls[j].uid = task[i].upload_id
                    /\ IF Len(calls) = k
                       THEN task[i].pc = "mp_abort"
                       ELSE /\ Len(calls) = k + 1
                            /\ calls[k + 1].op = "abort_multipart_upload"
                            /\ calls[k + 1].uid = task[i].upload_id
                            /\ Finished(i)
                            /\ task[i].res = Result(FALSE, 0)

\* the upload of the second part failed, the abort failed too, and the
\* object was collected as failed
C10_Witness ==
    \E i \in collected :
        LET calls == task[i].calls
        IN  /\ Finished(i)
            /\ Len(calls) >= 2
            /\ calls[Len(calls) - 1].op = "upload_part"
            /\ calls[Len(calls) - 1].part = 2
            /\ ~calls[Len(calls) - 1].ok
            /\ calls[Len(calls)].op = "abort_multipart_upload"
            /\ ~calls[Len(calls)].ok
            /\ task[i].res = Result(FALSE, 0)
            /\ failed_keys = <<objects_list[i].Key>>

(***************************************************************************)
(* C11..C13: retry_operation, under SpecRetry.                             *)
(***************************************************************************)
RetryEnded == rt.pc \in {"returned", "raised"}

\* a client error whose code is not in the retriable set
Permanent(exc) ==
    exc.cls = "ClientError" /\ exc.code \notin RETRIABLE_ERROR_CODES

\* the function fails with a transient error on each of its first n
\* invocations
FailsTransiently(n) == \A k \in 1..n : Transient(rt.func[k])

\* C11: a call whose function fails with a transient error every time ends
\* after exactly max_retries invocations by raising the transient error of
\* the last one; a call whose function returns on some invocation returns
\* that result, and the invocation that returned is the last one.  No call
\* invokes its function more than max_retries times.
C11_RetryBudget ==
    /\ Invocations(rt) <= rt.max_retries
    /\ RetryEnded /\ FailsTransiently(rt.max_retries) =>
          /\ rt.pc = "raised"
          /\ Invocations(rt) = rt.max_retries
          /\ rt.result = rt.func[rt.max_retries]
          /\ Transient(rt.result)
    /\ \A k \in 1..rt.max_retries :
          RetryEnded /\ FailsTransiently(k - 1) /\ rt.func[k] = OK =>
              /\ rt.pc = "returned"
              /\ rt.result = OK
              /\ Invocations(rt) = k
    /\ \A j \in DOMAIN rt.trace :
          rt.trace[j] = Invoked(OK) =>
              /\ j = Len(rt.trace)
              /\ rt.pc = "returned"
              /\ rt.result = OK

\* a call with max_retries = 3 raised after three transient failures
C11_Witness ==
    /\ rt.pc = "raised"
    /\ rt.max_retries = 3
    /\ FailsTransiently(3)
    /\ Invocations(rt) = 3
    /\ rt.result = rt.func[3]

\* C12: an invocation that fails with a permanent error is the last event of
\* the call: no sleep and no invocation follows it, and the call raises that
\* error, whatever transient failures came before it.
C12_PermanentRaisedAtOnce ==
    \A j \in DOMAIN rt.trace :
        rt.trace[j].ev = "call" /\ Permanent(rt.trace[j].out) =>
            /\ j = Len(rt.trace)
            /\ rt.pc = "raised"
            /\ rt.result = rt.trace[j].out

\* a permanent error was raised after two transient failures of the call
C12_Witness ==
    /\ rt.pc = "raised"
    /\ Permanent(rt.result)
    /\ Invocations(rt) = 3
    /\ FailsTransiently(2)

Sleeps == SelectSeq(rt.trace, LAMBDA e : e.ev = "sleep")

\* C13: the k-th sleep of a call lasts retry_delay * 2^(k-1), so each sleep
\* is twice the one before it; a sleep is taken after every transient
\* failure, of either kind, and at no other time.
C13_DelaysDouble ==
    /\ \A k \in DOMAIN Sleeps :
          /\ Sleeps[k].secs = rt.retry_delay * 2 ^ (k - 1)
          /\ k > 1 => Sleeps[k].secs = 2 * Sleeps[k - 1].secs
    /\ \A j \in DOMAIN rt.trace :
          /\ rt.trace[j].ev = "sleep" =>
                /\ j > 1
                /\ rt.trace[j - 1].ev = "call"
                /\ Transient(rt.trace[j - 1].out)
          /\ rt.trace[j].ev = "call" /\ Transient(rt.trace[j].out) =>
                /\ j < Len(rt.trace)
                /\ rt.trace[j + 1].ev = "sleep"

\* a retriable client error, a connection error and a timeout, one after
\* the other, were followed by sleeps of retry_delay, twice and four times
\* retry_delay
C13_Witness ==
    /\ Len(Sleeps) = 3
    /\ rt.func[1].cls = "ClientError"
    /\ rt.func[2].cls = "ConnectionError"
    /\ rt.func[3].cls = "TimeoutError"
    /\ rt.retry_delay = 2
    /\ [k \in 1..3 |-> Sleeps[k].secs] = <<2, 4, 8>>

(***************************************************************************)
(* C14, C16, C17, C20: the remote calls and the bookkeeping of a bucket.   *)
(***************************************************************************)
\* C14: a transient error of a remote operation reaches the caller only
\* after retry_operation has invoked the operation max_retries times; so a
\* bucket is never ended by a transient error of an operation that was
\* invoked fewer times.
C14_EveryCallThroughRetrier ==
    last_error.kind = "transient" => last_error.calls = max_retries

\* a bucket was ended by a transient error of a listing page that was
\* requested once
C14_ListingNotRetried ==
    /\ last_error.op = "list_objects_v2"
    /\ last_error.kind = "transient"
    /\ last_error.calls = 1
    /\ total_failed > 0

\* the failed-key files written for bucket b
FilesOf(b) == {k \in DOMAIN files : files[k].bucket = b}

\* C16: when migrate_bucket has returned, a file with the failed keys of the
\* bucket, all of them and in order, has been written if and only if at
\* least one object failed.
C16_FailedKeysAlwaysWritten ==
    BucketCompleted =>
        IF failed_objects > 0
        THEN \E k \in FilesOf(bucket_name) : files[k].keys = failed_keys
        ELSE FilesOf(bucket_name) = {}

\* a bucket completed with a failed object and without a file
C16_FailureWithoutFile ==
    /\ BucketCompleted
    /\ failed_objects = 1
    /\ failed_keys = <<KeyA>>
    /\ FilesOf(bucket_name) = {}

\* C17: a create_bucket that reports that the bucket exists does not end the
\* migration of the bucket.
C17_CreateToleratesExisting ==
    ~(last_error.op = "create_bucket" /\ last_error.kind = "exists")

\* the first bucket was counted as failed as a whole because its
\* create_bucket reported that it exists, and none of its objects was
\* listed
C17_ExistingBucketFails ==
    /\ last_error.op = "create_bucket"
    /\ last_error.kind = "exists"
    /\ bidx = 2
    /\ failures_by_bucket["b1"] = Failure(0, TRUE)
    /\ total_objects = 0

\* C20: the tasks of a bucket that are running are never more than
\* max_workers, and a queued task is started only while fewer than
\* max_workers are running.
C20_AtMostMaxWorkersRunning ==
    /\ [](Cardinality(Running) <= cfg.max_workers)
    /\ [][\A i \in DOMAIN task :
            (i \in DOMAIN task' /\ task[i].pc = "queued"
                /\ task'[i].pc # "queued")
                => Cardinality(Running) < cfg.max_workers]_vars

\* with one worker, the second object waits while the first is transferred
C20_Witness ==
    /\ cfg.max_workers = 1
    /\ Len(task) = 2
    /\ task[1].pc \in {"get", "put"}
    /\ task[2].pc = "queued"

(***************************************************************************)
(* C15: the second run, under SpecTwice.                                   *)
(***************************************************************************)
\* the run is the second one, after a first run that returned no failure
SecondRun == Len(runs) = 1 /\ runs[1].failed = 0

\* every head_object call of task i returned
ChecksReturned(i) ==
    \A k \in DOMAIN task[i].calls :
        task[i].calls[k].op = "head_object" => task[i].calls[k].ok

C18_InterruptStopsNewWork ==
    /\ [][pc = "shutdown" =>
            \A i \in DOMAIN task :
                task[i].pc = "queued" => task'[i].pc = "queued"]_vars
    /\ [][pc = "shutdown" /\ pc' # "shutdown" =>
            pc' = "exited" /\ exit_code' = 130]_vars

\* the process exited with 130 after an interrupt that came before any
\* result was collected, with every object of the bucket transferred by the
\* one worker
C18_AllTransferredBeforeExit ==
    /\ pc = "exited"
    /\ exit_code = 130
    /\ cfg.max_workers = 1
    /\ collected = {}
    /\ Len(task) = 2
    /\ \A i \in DOMAIN task : Finished(i) /\ task[i].res.copied

\* a required parameter is missing, or the configuration file could not be
\* loaded
ConfigurationMissing ==
    \/ conf.config_file \in {"empty", "raises"}
    \/ \E x \in Required :
          /\ x \notin conf.args
          /\ conf.config_file = "loaded" => x \notin conf.file

\* C19: the process exits with 0, 1 or 130: with 1 from main() exactly when
\* the configuration is missing, with 0 when migrate_all_buckets returns,
\* whatever failures it counted, with 130 after a KeyboardInterrupt; a step
\* that counts a failed object or a failed bucket leaves the status alone.
C19_ExitStatus ==
    /\ [](exit_code \in {NoExit, 0, 1, 130})
    /\ []((pc = "exited") <=> (exit_code # NoExit))
    /\ [][pc = "main" =>
            IF ConfigurationMissing
            THEN exit_code' = 1
            ELSE exit_code' = NoExit /\ pc' = "ensure_head"]_vars
    /\ [][pc = "done" => exit_code' = 0]_vars
    /\ [][exit_code' # exit_code =>
            /\ exit_code = NoExit
            /\ exit_code' = 1 => pc = "main"
            /\ exit_code' = 0 => pc = "done"
            /\ exit_code' = 130 =>
                  pc \in {"ensure_head", "ensure_create", "list", "relist",
                          "shutdown"}
            /\ total_failed' = total_failed
            /\ failed_objects' = failed_objects
            /\ failures_by_bucket' = failures_by_bucket]_vars
    /\ [][total_failed' # total_failed \/ failed_objects' # failed_objects
            => exit_code' = exit_code /\ pc' # "exited"]_vars

\* the process exited with 0 after a run with a failed object and a bucket
\* that failed as a whole
C19_Witness ==
    /\ pc = "exited"
    /\ exit_code = 0
    /\ "b1" \in DOMAIN failures_by_bucket
    /\ failures_by_bucket["b1"] = Failure(1, FALSE)
    /\ "b2" \in DOMAIN failures_by_bucket
    /\ failures_by_bucket["b2"].whole

(***************************************************************************)
(* C21..C23: who writes what.                                              *)
(***************************************************************************)
\* the tasks whose _copy_object returned success
Succeeded == {i \in DOMAIN task : task[i].pc = "done" /\ task[i].res.copied}

\* the bytes the tasks of S returned
RECURSIVE ReturnedBytes(_)
ReturnedBytes(S) ==
    IF S = {} THEN 0
    ELSE LET i == CHOOSE j \in S : TRUE
         IN  task[i].res.size + ReturnedBytes(S \ {i})

\* the step is a step of a worker task
WorkerStep == DOMAIN task' = DOMAIN task /\ task' # task

\* C21: no step of a worker task writes copied_objects, failed_objects, the
\* byte total or failed_keys; a step that writes them collects one finished
\* future; and when the bucket completes they are what the results of the
\* tasks determine, whatever the order the tasks ran and finished in: the
\* number of successes, the number of failures, the sum of the returned
\* sizes and, as a set, the keys of the failed objects.
C21_CollectorOwnsCounters ==
    /\ [][WorkerStep =>
            UNCHANGED <<copied_objects, failed_objects, bucket_bytes,
                        failed_keys, collected>>]_vars
    /\ [][pc = "collect" /\ pc' = "collect"
            /\ <<copied_objects, failed_objects, bucket_bytes, failed_keys>>'
                  # <<copied_objects, failed_objects, bucket_bytes, failed_keys>>
            => /\ task' = task
               /\ \E i \in DOMAIN task :
                     /\ Finished(i)
                     /\ i \notin collected
                     /\ collected' = collected \cup {i}]_vars
    /\ [](BucketCompleted =>
            /\ copied_objects = Cardinality(Succeeded)
            /\ failed_objects = Cardinality(DOMAIN task \ Succeeded)
            /\ bucket_bytes = ReturnedBytes(Succeeded)
            /\ {failed_keys[k] : k \in DOMAIN failed_keys} =
                  {objects_list[i].Key : i \in DOMAIN task \ Succeeded})

\* two workers; both objects of the bucket failed and the second one was
\* collected before the first
C21_Witness ==
    /\ BucketCompleted
    /\ bidx = 1
    /\ cfg.max_workers = 2
    /\ failed_keys = <<KeyBig, KeyA>>
    /\ failed_objects = 2

\* the client a remote operation is issued on
IssuedOn(op) ==
    IF op \in {"get_object", "list_objects_v2"} THEN "source" ELSE "target"

\* the operations that only read
ReadOps == {"head_bucket", "head_object", "get_object", "list_objects_v2"}

\* the operations that remove an object or a bucket
DeleteOps == {"delete_object", "delete_objects", "delete_bucket"}

Buckets == {bucket_names[k] : k \in DOMAIN bucket_names}

\* C22: no task issues a delete operation, and the only operation a task
\* issues on the source is a read; no step changes the source; no step
\* removes an object from the target; and no step changes what the target
\* holds under a key that the listing of the source bucket does not hold.
C22_OneDirectional ==
    /\ [](\A i \in DOMAIN task : \A k \in DOMAIN task[i].calls :
            LET op == task[i].calls[k].op
            IN  /\ op \notin DeleteOps
                /\ IssuedOn(op) = "source" => op \in ReadOps)
    /\ [](last_error.op \notin DeleteOps)
    /\ [][source' = source]_vars
    /\ [][\A b \in Buckets : \A k \in Keys :
            /\ target[b][k] # Absent => target'[b][k] # Absent
            /\ k \notin ListedKeys(b) => target'[b][k] = target[b][k]]_vars

\* the run has ended with the three objects of the source copied, and the
\* target still holds its own objects in the three buckets
C22_Witness ==
    /\ pc = "done"
    /\ total_objects = 3
    /\ total_failed = 0
    /\ target["b1"][KeyBig] = BigObjSize
    /\ target["b1"][KeyDir] = RunMaxDirectSize + 1
    /\ target["b2"][KeyA] = RunMaxDirectSize + 1
    /\ target["b3"][KeyBig] = RunMaxDirectSize + 1

\* the call is the get_object of the direct path: the whole object
WholeGet(c) == c.op = "get_object" /\ c.lo = -1

\* the last call task i has issued
LastCall(i) == task[i].calls[Len(task[i].calls)]

\* C23: a put_object call is the last call of its task and the call right
\* after a get_object of the whole object that returned and whose body was
\* read; a task whose whole-object get_object failed has ended with
\* (False, 0) without a put_object; the target changes under a key only in
\* the step in which the put_object or the complete_multipart_upload of the
\* task of that key succeeds; a step in which a put_object fails leaves the
\* target as it is, and after it the target holds under the key what it
\* held when the task checked it.
C23_DirectPutAllOrNothing ==
    /\ [](\A i \in DOMAIN task : \A k \in DOMAIN task[i].calls :
            LET c == task[i].calls[k]
            IN  /\ c.op = "put_object" =>
                      /\ k = Len(task[i].calls)
                      /\ k > 1
                      /\ WholeGet(task[i].calls[k - 1])
                      /\ task[i].calls[k - 1].ok
                /\ WholeGet(c) /\ ~c.ok =>
                      /\ k = Len(task[i].calls)
                      /\ task[i].pc = "done"
                      /\ task[i].res = Result(FALSE, 0))
    /\ [][\A b \in Buckets : \A key \in Keys :
            target'[b][key] # target[b][key] =>
                /\ b = bucket_name
                /\ \E i \in DOMAIN task :
                      /\ objects_list[i].Key = key
                      /\ task[i].pc \in {"put", "mp_complete"}
                      /\ task'[i].pc = "done"
                      /\ task'[i].res = Result(TRUE, objects_list[i].Size)
                      /\ target'[b][key] = objects_list[i].Size]_vars
    /\ [][\A i \in DOMAIN task :
            /\ task[i].pc = "put"
            /\ DOMAIN task' = DOMAIN task
            /\ task'[i].pc = "done"
            /\ ~task'[i].res.copied
            => target' = target]_vars
    /\ [](\A i \in DOMAIN task :
            /\ Finished(i)
            /\ LastCall(i).op = "put_object"
            /\ ~LastCall(i).ok
            /\ task[i].calls[1].op = "head_object"
            => target[bucket_name][objects_list[i].Key] =
                  task[i].calls[1].tsize)

\* direct_read: the put_object of the first object failed after its body
\* was read and the target still holds the object it held, of another size;
\* the read of the second object failed and no put_object followed
C23_Witness ==
    /\ bidx = 1
    /\ pc = "collect"
    /\ cfg.direct_read
    /\ cfg.skip_existing
    /\ Finished(1)
    /\ Len(task[1].calls) = 3
    /\ task[1].calls[1].tsize = RunMaxDirectSize + 1
    /\ LastCall(1).op = "put_object"
    /\ ~LastCall(1).ok
    /\ target["b1"][KeyA] = RunMaxDirectSize + 1
    /\ Finished(2)
    /\ WholeGet(LastCall(2))
    /\ ~LastCall(2).ok

(***************************************************************************)
(* C24: the second check of the multipart path.                            *)
(***************************************************************************)
\* task i has run the check of _copy_object and then the check of
\* _multipart_copy
CheckedAgain(i) ==
    /\ Len(task[i].calls) >= 2
    /\ task[i].calls[1].op = "head_object"
    /\ task[i].calls[2].op = "head_object"

MultipartOps == {"create_multipart_upload", "get_object", "upload_part"}

\* task i issued a call of the multipart transfer
MultipartIssued(i) ==
    \E k \in DOMAIN task[i].calls : task[i].calls[k].op \in MultipartOps

\* C24 as stated: when the target held the key with the size of the source
\* object at the second check, no call of the multipart transfer is issued.
C24_SkipWheneverTargetHoldsAtSecondCheck ==
    \A i \in DOMAIN task :
        CheckedAgain(i)
        /\ task[i].calls[2].tsize = objects_list[i].Size
        => ~MultipartIssued(i)

\* C24, amended: for an object the check applies to, create_multipart_upload
\* is the third call, after the check of _copy_object and the check of
\* _multipart_copy; when the second check returns and reports the size of
\* the source object, the task has ended with (True, size) and issued
\* nothing else; when it ends in an error or reports another size, the
\* transfer goes on.
C24_SecondCheckSkips ==
    \A i \in DOMAIN task :
        /\ \A k \in DOMAIN task[i].calls :
              Checked(i) /\ task[i].calls[k].op = "create_multipart_upload"
              => k = 3 /\ CheckedAgain(i)
        /\ CheckedAgain(i) =>
              IF task[i].calls[2].ok
                 /\ task[i].calls[2].tsize = objects_list[i].Size
              THEN /\ Finished(i)
                   /\ task[i].res = Result(TRUE, objects_list[i].Size)
                   /\ Len(task[i].calls) = 2
              ELSE Finished(i) => MultipartIssued(i)

\* the first check found the key missing, the object appeared in the target
\* afterwards, and the second check skipped the transfer
C24_Witness ==
    /\ bidx = 1
    /\ pc = "collect"
    /\ CheckedAgain(1)
    /\ task[1].calls[1].tsize = Absent
    /\ task[1].calls[2].ok
    /\ task[1].calls[2].tsize = BigObjSize
    /\ task[1].res = Result(TRUE, BigObjSize)
    /\ ~MultipartIssued(1)

(***************************************************************************)
(* C25, C26: when the existence check does not apply.                      *)
(***************************************************************************)
\* task i issued head_object, or is about to
ChecksTarget(i) ==
    \/ task[i].pc \in {"head", "mp_head"}
    \/ \E k \in DOMAIN task[i].calls : task[i].calls[k].op = "head_object"

\* the first call of task i is the first call of a transfer
TransferredUnchecked(i) ==
    /\ Len(task[i].calls) > 0
    /\ task[i].calls[1].op \in {"get_object", "create_multipart_upload"}

\* C25: with skip_existing off no task issues head_object, and the first
\* call of every task that has ended is get_object or
\* create_multipart_upload, whatever the target holds under the key.
C25_NoCheckWhenSkipOff ==
    ~cfg.skip_existing =>
        \A i \in DOMAIN task :
            /\ ~ChecksTarget(i)
            /\ Finished(i) => TransferredUnchecked(i)

\* skip_existing off, the target holds both objects of the bucket with the
\* sizes of the source: the body of the first has been read for the put,
\* a part of the second is being uploaded
C25_Witness ==
    /\ ~cfg.skip_existing
    /\ bidx = 1
    /\ pc = "collect"
    /\ target["b1"][KeyA] = objects_list[1].Size
    /\ target["b1"][KeyBig] = objects_list[2].Size
    /\ task[1].pc = "put"
    /\ task[2].pc = "mp_upload"
    /\ TransferredUnchecked(1)
    /\ TransferredUnchecked(2)

\* C26: with skip_existing on, no head_object is issued for a key that ends
\* in '/', and the first call of its task is get_object or
\* create_multipart_upload, whatever the target holds under the key.
C26_FolderKeysBypassCheck ==
    cfg.skip_existing =>
        \A i \in DOMAIN task :
            endswith_slash(objects_list[i].Key) =>
                /\ ~ChecksTarget(i)
                /\ Finished(i) => TransferredUnchecked(i)

\* the target held both markers with the sizes of the source; the large
\* one of the first bucket was copied by a multipart transfer, and the body
\* of the empty one of the second bucket has been read for the put
C26_Witness ==
    /\ cfg.skip_existing
    /\ bidx = 2
    /\ pc = "collect"
    /\ total_objects = 2
    /\ Len(uploads) > 0
    /\ uploads[Len(uploads)].key = KeyDir
    /\ uploads[Len(uploads)].state = "completed"
    /\ objects_list[1].Key = KeyDir
    /\ target["b2"][KeyDir] = objects_list[1].Size
    /\ task[1].pc = "put"
    /\ TransferredUnchecked(1)

(***************************************************************************)
(* C27: the byte total.                                                    *)
(***************************************************************************)
\* the sizes the listing gives for the objects of the tasks of S
RECURSIVE SourceBytes(_)
SourceBytes(S) ==
    IF S = {} THEN 0
    ELSE LET i == CHOOSE j \in S : TRUE
         IN  objects_list[i].Size + SourceBytes(S \ {i})

\* C27: a task that has ended returned the listed size of its object with
\* success, a skip included, and 0 with failure; the byte total of the
\* collecting loop is the sum of the listed sizes of the collected
\* successes; migrate_bucket returns the sum over all successes of the
\* bucket, and that is what the run adds to its total.
C27_BytesOfSuccesses ==
    /\ [](\A i \in DOMAIN task :
            Finished(i) =>
                task[i].res.size = IF task[i].res.copied
                                   THEN objects_list[i].Size ELSE 0)
    /\ [](pc = "collect" =>
            bucket_bytes = SourceBytes(Succeeded \cap collected))
    /\ [](pc = "relist" => bucket_bytes = SourceBytes(Succeeded))
    /\ [][pc = "collect" /\ pc' = "relist" =>
            total_bytes' = total_bytes + SourceBytes(Succeeded)]_vars

\* a bucket completed with its first object skipped and the transfer of
\* the second failed: the byte total is the size of the skipped object
C27_Witness ==
    /\ BucketCompleted
    /\ bidx = 1
    /\ Skipped(1)
    /\ ~task[2].res.copied
    /\ bucket_bytes = objects_list[1].Size
    /\ bucket_bytes > 0
    /\ total_bytes = bucket_bytes

(***************************************************************************)
(* C28: the enumeration.                                                   *)
(***************************************************************************)
\* the listing pages of the bucket being migrated
Pages == source[bucket_name]

\* C28: while the pages are read no task exists; the tasks are submitted in
\* the step that reads the last page; from then on the list holds every
\* object of every page once and nothing else, in the order of the pages,
\* and there is one task for each object of the list.
C28_WholeListingBeforeWork ==
    /\ [](pc = "list" => task = <<>> /\ page < Len(Pages))
    /\ [][task = <<>> /\ task' # <<>> =>
            /\ pc = "list"
            /\ page + 1 = Len(Pages)
            /\ objects_list' = Flatten(Pages)]_vars
    /\ [](pc \in {"collect", "relist"} =>
            /\ \A p \in DOMAIN Pages : \A q \in DOMAIN Pages[p] :
                  Occurrences(objects_list, Pages[p][q]) = 1
            /\ \A k \in DOMAIN objects_list :
                  \E p \in DOMAIN Pages : \E q \in DOMAIN Pages[p] :
                      objects_list[k] = Pages[p][q]
            /\ objects_list = Flatten(Pages)
            /\ Len(objects_list) > 0 => DOMAIN task = DOMAIN objects_list)

\* three pages, the second without contents, were read and the two objects
\* of the first and the third page were submitted; a task has started
C28_Witness ==
    /\ pc = "collect"
    /\ bidx = 1
    /\ Len(Pages) = 3
    /\ Pages[2] = <<>>
    /\ objects_list = Pages[1] \o Pages[3]
    /\ Len(objects_list) = 2
    /\ task[1].pc # "queued"

(***************************************************************************)
(* C29: the rendering of sizes.                                            *)
(***************************************************************************)
\* the floor of the logarithm to the base 1024 of a size of at least 1
floor_log(ds) == Len(ds) - 1

\* the text of a size with the unit of index i
rendered(ds, i) == float_text(hundredths(ds, i)) \o " " \o size_names[i + 1]

\* C29: _format_size(0) is "0B"; for every size of at least 1 the call
\* returns the size divided by 1024 ** i and rounded to two decimals,
\* followed by the unit of index i, where i is the floor of the logarithm
\* of the size to the base 1024; 1024, 1024 ** 2 and 1024 ** 3 are rendered
\* as "1.0 KB", "1.0 MB" and "1.0 GB".
C29_UnitIsFloorOfLog ==
    fmt.pc = "done" =>
        /\ fmt.size_bytes = <<0>> => ~fmt.raised /\ fmt.text = "0B"
        /\ fmt.size_bytes # <<0>> =>
              /\ ~fmt.raised
              /\ floor_log(fmt.size_bytes) < Len(size_names)
              /\ fmt.text = rendered(fmt.size_bytes, floor_log(fmt.size_bytes))
        /\ fmt.size_bytes = <<1, 0>> => fmt.text = "1.0 KB"
        /\ fmt.size_bytes = <<1, 0, 0>> => fmt.text = "1.0 MB"
        /\ fmt.size_bytes = <<1, 0, 0, 0>> => fmt.text = "1.0 GB"

\* 1024 ** 5 - 1 bytes, whose logarithm has the floor 4, are rendered with
\* the unit of index 5
C29_PetabyteBelowThePower ==
    /\ fmt.pc = "done"
    /\ fmt.size_bytes = <<1023, 1023, 1023, 1023, 1023>>
    /\ floor_log(fmt.size_bytes) = 4
    /\ rendered(fmt.size_bytes, 4) = "1024.0 TB"
    /\ fmt.text = "1.0 PB"

\* what holds of the rendering: the sizes the claim lists are rendered as
\* it says, and the rule of the floor holds for every size below 1024 ** 6
\* that is not one of the three sizes before 1024 ** 5 nor one of the 1024
\* sizes before 1024 ** 6
FormatFollowsFloorElsewhere ==
    fmt.pc = "done" =>
        /\ fmt.size_bytes = <<0>> => ~fmt.raised /\ fmt.text = "0B"
        /\ fmt.size_bytes = <<1, 0>> => fmt.text = "1.0 KB"
        /\ fmt.size_bytes = <<1, 0, 0>> => fmt.text = "1.0 MB"
        /\ fmt.size_bytes = <<1, 0, 0, 0>> => fmt.text = "1.0 GB"
        /\ /\ fmt.size_bytes # <<0>>
           /\ Len(fmt.size_bytes) <= Len(size_names)
           /\ ~(Len(fmt.size_bytes) = 5 /\ below_power(fmt.size_bytes) <= 3)
           /\ ~(Len(fmt.size_bytes) = 6 /\ below_power(fmt.size_bytes) <= Base)
           => /\ ~fmt.raised
              /\ fmt.text = rendered(fmt.size_bytes, floor_log(fmt.size_bytes))

(***************************************************************************)
(* C30: the multipart session of a transfer.                               *)
(***************************************************************************)
\* call k of task i is a create_multipart_upload that returned
Created(i, k) ==
    /\ task[i].calls[k].op = "create_multipart_upload"
    /\ task[i].calls[k].ok

SessionOps ==
    {"upload_part", "complete_multipart_upload", "abort_multipart_upload"}

ClosingOps == {"complete_multipart_upload", "abort_multipart_upload"}

\* C30: a task creates one session at most, every call it makes on a
\* session carries the upload id its own create returned, and no two tasks
\* hold the same upload id; the session of the target is the one of the
\* task's bucket and key.  A task that has ended after its create returned
\* ended with a complete that succeeded or with an abort of that upload id,
\* the abort following a failed complete as well.  An abort is the last
\* call of its task, after a create that returned and no complete that
\* succeeded; a failed create is the last call of its task; a complete that
\* succeeded is the last call of its task; no upload_part follows a
\* complete or an abort.
C30_SessionClosedByItsTransfer ==
    \A i \in DOMAIN task :
        LET calls == task[i].calls
            n == Len(calls)
        IN  /\ \A k, l \in DOMAIN calls :
                  calls[k].op = "create_multipart_upload"
                  /\ calls[l].op = "create_multipart_upload" => k = l
            /\ \A k \in DOMAIN calls :
                  /\ Created(i, k) =>
                        /\ calls[k].uid = task[i].upload_id
                        /\ uploads[calls[k].uid].key = objects_list[i].Key
                        /\ uploads[calls[k].uid].bucket = bucket_name
                        /\ \A j \in DOMAIN task \ {i} :
                              task[j].upload_id # calls[k].uid
                        /\ Finished(i) =>
                              /\ calls[n].op \in ClosingOps
                              /\ calls[n].uid = calls[k].uid
                              /\ calls[n].op = "complete_multipart_upload"
                                    => calls[n].ok
                  /\ calls[k].op \in SessionOps =>
                        \E c \in 1..(k - 1) :
                            Created(i, c) /\ calls[c].uid = calls[k].uid
                  /\ calls[k].op = "abort_multipart_upload" =>
                        /\ k = n
                        /\ Finished(i)
                        /\ task[i].res = Result(FALSE, 0)
                        /\ \A c \in 1..(k - 1) :
                              calls[c].op = "complete_multipart_upload"
                              => ~calls[c].ok
                  /\ calls[k].op = "create_multipart_upload" /\ ~calls[k].ok
                        => k = n /\ task[i].res = Result(FALSE, 0)
                  /\ calls[k].op = "complete_multipart_upload" =>
                        /\ calls[k].ok =>
                              /\ k = n
                              /\ uploads[calls[k].uid].state = "completed"
                        /\ ~calls[k].ok /\ k < n =>
                              /\ n = k + 1
                              /\ calls[n].op = "abort_multipart_upload"
                  /\ calls[k].op \in ClosingOps =>
                        \A l \in (k + 1)..n : calls[l].op # "upload_part"

\* two workers, two sessions open side by side: the transfer of the first
\* object, whose session was created second, ended with an abort after its
\* complete failed; the transfer of the second object ended with a complete
C30_Witness ==
    /\ bidx = 1
    /\ pc = "collect"
    /\ Finished(1)
    /\ Finished(2)
    /\ task[1].upload_id = 2
    /\ task[2].upload_id = 1
    /\ LastCall(1).op = "abort_multipart_upload"
    /\ LastCall(1).uid = 2
    /\ task[1].calls[Len(task[1].calls) - 1].op = "complete_multipart_upload"
    /\ ~task[1].calls[Len(task[1].calls) - 1].ok
    /\ LastCall(2).op = "complete_multipart_upload"
    /\ LastCall(2).ok
    /\ uploads[1].state = "completed"

(***************************************************************************)
(* C31: the resolution of skip_existing.                                   *)
(***************************************************************************)
\* main() builds the migrator in this step
BuildsMigrator == pc = "main" /\ pc' = "ensure_head"

\* the configuration file was loaded and sets skip_existing to false
FileTurnsSkipOff == conf.config_file = "loaded" /\ ~conf.file_skip_existing

\* C31: the migrator is built with skip_existing false when
\* --no-skip-existing is passed, or when it is not passed and the
\* configuration file sets skip_existing to false, and with true otherwise.
C31_SkipExistingResolved ==
    [][BuildsMigrator =>
          cfg'.skip_existing =
              ~(conf.no_skip_existing \/ FileTurnsSkipOff)]_vars

\* what the code does: the value of the file is never used
SkipExistingFromFlagOnly ==
    [][BuildsMigrator =>
          cfg'.skip_existing = ~conf.no_skip_existing]_vars

(***************************************************************************)
(* C32: the failed count of a bucket whose migrate_bucket call returned.   *)
(***************************************************************************)
\* migrate_all_buckets ends its work on a bucket whose migrate_bucket call
\* has returned
AfterMigrateBucket == pc = "relist" /\ pc' # "relist"

\* the objects of the bucket with a failed outcome
FailedOutcomes == {i \in DOMAIN task : ~task[i].res.copied}

\* C32: for a bucket whose migrate_bucket call returned, the count added to
\* the run's failure total is the number of its objects with a failed
\* outcome, never negative, and the bucket is not recorded as failed as a
\* whole.
C32_FailedCountOfReturnedBucket ==
    [][AfterMigrateBucket =>
          /\ total_failed' - total_failed = Cardinality(FailedOutcomes)
          /\ total_failed' >= total_failed
          /\ ~WholeBucketFails]_vars

\* what holds when the second listing succeeds as well
C32_CountsAddUpWhenRelisted ==
    [][AfterMigrateBucket /\ ~WholeBucketFails =>
          /\ total_failed' - total_failed = Cardinality(FailedOutcomes)
          /\ Cardinality(FailedOutcomes)
                + (IF task = <<>> THEN 0 ELSE copied_objects)
                = Len(Flatten(source[bucket_name]))]_vars

\* both objects of "b1" succeeded and were added to the run's total, and the
\* bucket is recorded as failed as a whole because the second listing raised
C32_ReturnedBucketFailedWhole ==
    /\ bidx = 2
    /\ pc = "ensure_head"
    /\ total_objects = 2
    /\ total_failed = 1
    /\ "b1" \in DOMAIN failures_by_bucket
    /\ failures_by_bucket["b1"].whole
    /\ last_error.op = "list_objects_v2"

(***************************************************************************)
(* C33: the invocations and the sleeps of a call that never succeeds.      *)
(***************************************************************************)
RECURSIVE SecondsOf(_)
SecondsOf(events) ==
    IF events = <<>> THEN 0
    ELSE events[1].secs + SecondsOf(Tail(events))

\* C33: no call invokes its function more than max_retries times; a call
\* whose max_retries invocations all fail transiently sleeps max_retries
\* times, the last time after the last failure, for
\* retry_delay * (2^max_retries - 1) in all, and raises the last error after
\* that.
C33_SleepsBeforeRaising ==
    /\ Invocations(rt) <= rt.max_retries
    /\ rt.pc = "raised" /\ FailsTransiently(rt.max_retries) =>
          /\ Invocations(rt) = rt.max_retries
          /\ Len(Sleeps) = rt.max_retries
          /\ rt.trace[Len(rt.trace)].ev = "sleep"
          /\ rt.trace[Len(rt.trace) - 1] = Invoked(rt.func[rt.max_retries])
          /\ SecondsOf(rt.trace) = rt.retry_delay * (2 ^ rt.max_retries - 1)
          /\ rt.result = rt.func[rt.max_retries]
    /\ FailsTransiently(rt.max_retries) /\ Len(Sleeps) < rt.max_retries =>
          rt.pc = "loop"

\* a call with max_retries = 2 and retry_delay = 2 slept 2 + 4 = 6 seconds
\* and raised the second transient error
C33_Witness ==
    /\ rt.pc = "raised"
    /\ rt.max_retries = 2
    /\ rt.retry_delay = 2
    /\ FailsTransiently(2)
    /\ Invocations(rt) = 2
    /\ Len(Sleeps) = 2
    /\ SecondsOf(rt.trace) = 6

(***************************************************************************)
(* C34: termination.                                                       *)
(***************************************************************************)
\* an iteration of the while loop of retry_operation that neither returned
\* nor raised
LoopsAgain == rt.pc = "loop" /\ rt'.pc = "loop" /\ rt' # rt

\* task i of the pool was submitted and has produced no outcome
Pending(i) == pc = "collect" /\ i \in DOMAIN task /\ task[i].pc # "done"

\* task i has produced its outcome, or the run is over
Produced(i) == pc = "done" \/ (i \in DOMAIN task /\ task[i].pc = "done")

\* a call of migrate_bucket is in progress
InMigrateBucket == pc \in {"list", "collect"}

\* C34: without an interrupt and with remote calls that all return or raise,
\* every iteration of the loop of retry_operation returns, raises or
\* increases retry_count, which never exceeds max_retries, and the call
\* ends; every task submitted to the pool produces an outcome; every call
\* of migrate_bucket ends; and migrate_all_buckets returns.
C34_Termination ==
    /\ [][LoopsAgain => /\ rt'.retry_count = rt.retry_count + 1
                        /\ rt'.retry_count <= rt.max_retries]_vars
    /\ (rt.pc = "loop") ~> RetryEnded
    /\ \A i \in 1..2 : Pending(i) ~> Produced(i)
    /\ InMigrateBucket ~> ~InMigrateBucket
    /\ <>[](pc = "done")

\* the call of retry_operation was left and migrate_all_buckets returned
\* after a run in which objects succeeded, an object failed and a bucket
\* failed as a whole
C34_Witness ==
    /\ rt = Left
    /\ pc = "done"
    /\ total_objects > 0
    /\ \E b \in DOMAIN failures_by_bucket : failures_by_bucket[b].whole
    /\ \E b \in DOMAIN failures_by_bucket : ~failures_by_bucket[b].whole

====
